---- MODULE Spec2Model ----
(***************************************************************************)
(* A model of the sampling core of rampack: the neighbour grid, the        *)
(* packing and the Monte Carlo driver.  Lengths are integers (a fixed unit *)
(* of length); a cell size, which the code computes as a quotient of two   *)
(* lengths, is kept as that quotient.                                      *)
(***************************************************************************)
EXTENDS Integers, Sequences, FiniteSets, TLC

(***************************************************************************)
(* Bounds of the model.                                                    *)
(***************************************************************************)
MaxLinearSize == 3

Particles == {0, 1}
Axes == 0 .. 2

VARIABLES grid, held, gridCall, packing, packingCall, simPacking, driver, threads,
          twin, tape, sim, logger, factory, node

gridVars == <<grid, held, gridCall>>
packingVars == <<packing, packingCall>>
simVars == <<simPacking, driver, threads>>
twinVars == <<twin, tape>>
frontVars == <<factory, node>>
ctlVars == <<twin, tape, sim, logger, factory, node>>
vars == <<grid, held, gridCall, packing, packingCall, simPacking, driver, threads,
          twin, tape, sim, logger, factory, node>>

(***************************************************************************)
(* Helpers on vectors and sequences.                                       *)
(***************************************************************************)
NoPos == [i \in Axes |-> -1]
NoReflection == -1

Min2(a, b) == IF a <= b THEN a ELSE b
Abs(a) == IF a < 0 THEN -a ELSE a

RECURSIVE SortedSeqOf(_)
SortedSeqOf(S) ==
    IF S = {} THEN <<>>
    ELSE LET m == CHOOSE x \in S : \A y \in S : x <= y
         IN <<m>> \o SortedSeqOf(S \ {m})

RECURSIVE CountIn(_, _)
CountIn(s, x) ==
    IF s = <<>> THEN 0
    ELSE (IF Head(s) = x THEN 1 ELSE 0) + CountIn(Tail(s), x)

\* std::vector::resize: keeps the first newSize elements, pads with fill
VecResize(vec, newSize, fill) ==
    [i \in 0 .. (newSize - 1) |-> IF i \in DOMAIN vec THEN vec[i] ELSE fill]

\* std::find + erase of the first occurrence
EraseFirst(s, x) ==
    IF \E k \in 1 .. Len(s) : s[k] = x
    THEN LET k == CHOOSE j \in 1 .. Len(s) : s[j] = x /\ \A m \in 1 .. (j - 1) : s[m] # x
         IN SubSeq(s, 1, k - 1) \o SubSeq(s, k + 1, Len(s))
    ELSE s

(***************************************************************************)
(* NeighbourGrid                                                           *)
(***************************************************************************)
\* Horner evaluation "for (i = 2; i >= 0; i--) result = n * result + c[i]"
CellNoOf(n, c) == (c[2] * n + c[1]) * n + c[0]

positionInRange(g, position) ==
    \A i \in Axes : position[i] >= 0 /\ position[i] < g.linearSize

positionToCellNo(g, position) ==
    CellNoOf(g.numCellsInLine,
             [i \in Axes |-> (position[i] * g.cellSize.den) \div g.cellSize.num + 1])

cellNoToCoordinates(g, cellNo) ==
    [i \in Axes |-> CASE i = 0 -> cellNo % g.numCellsInLine
                      [] i = 1 -> (cellNo \div g.numCellsInLine) % g.numCellsInLine
                      [] i = 2 -> ((cellNo \div g.numCellsInLine) \div g.numCellsInLine)
                                      % g.numCellsInLine]

coordinatesToCellNo(g, coords) == CellNoOf(g.numCellsInLine, coords)

cellNeighbourToCellNo(g, coordinates, neighbour) ==
    CellNoOf(g.numCellsInLine, [i \in Axes |-> coordinates[i] + neighbour[i] - 1])

isCellReflected(g, cellNo) ==
    LET coords == cellNoToCoordinates(g, cellNo)
    IN \E i \in Axes : coords[i] = 0 \/ coords[i] = g.numCellsInLine - 1

getReflectedCellVector_Shifted(g, cellNo) ==
    IF ~isCellReflected(g, cellNo) THEN NoReflection
    ELSE LET coords == cellNoToCoordinates(g, cellNo)
             moved == [i \in Axes |->
                          IF coords[i] = 0 THEN 1
                          ELSE IF coords[i] = g.numCellsInLine - 1
                               THEN g.numCellsInLine - 2
                               ELSE coords[i]]
         IN coordinatesToCellNo(g, moved)

getReflectedCellVector(g, cellNo) ==
    IF ~isCellReflected(g, cellNo) THEN NoReflection
    ELSE LET coords == cellNoToCoordinates(g, cellNo)
             \* "if (coord == 0) coord = n - 2; if (coord == n - 1) coord = 1;"
             \* the second test reads the value the first one wrote
             step1 == [i \in Axes |->
                          IF coords[i] = 0 THEN g.numCellsInLine - 2 ELSE coords[i]]
             step2 == [i \in Axes |->
                          IF step1[i] = g.numCellsInLine - 1 THEN 1 ELSE step1[i]]
         IN coordinatesToCellNo(g, step2)

\* increment(in): the next neighbour triple, and whether the loop goes on
increment(in) ==
    LET in0 == in[0] + 1
        carry0 == in0 > 2
        in1 == IF carry0 THEN in[1] + 1 ELSE in[1]
        carry1 == carry0 /\ in1 > 2
        in2 == IF carry1 THEN in[2] + 1 ELSE in[2]
    IN [i \in Axes |-> CASE i = 0 -> IF carry0 THEN 0 ELSE in0
                         [] i = 1 -> IF carry1 THEN 0 ELSE in1
                         [] i = 2 -> in2]

RECURSIVE NeighbourLoop(_, _, _, _)
NeighbourLoop(g, testCellCoords, neighbour, acc) ==
    LET neigbourNo == cellNeighbourToCellNo(g, testCellCoords, neighbour)
        testCellNo == coordinatesToCellNo(g, testCellCoords)
        acc2 == acc \cup {neigbourNo - testCellNo}
        next == increment(neighbour)
    IN IF next[2] <= 2 THEN NeighbourLoop(g, testCellCoords, next, acc2) ELSE acc2

\* the offsets are pushed, sorted and made unique: the sorted sequence of their set
fillNeighbouringCellsOffsets(g) ==
    LET testCellCoords == [i \in Axes |-> g.numCellsInLine \div 2]
    IN SortedSeqOf(NeighbourLoop(g, testCellCoords, [i \in Axes |-> 0], {}))

\* The aliasing target of every cell and the neighbour offsets depend on the cell
\* count per direction alone; they are tabulated once per cell count.
LayoutSizes == 2 .. (MaxLinearSize + 2)
ReflectedCells ==
    [n \in LayoutSizes |->
        [i \in 0 .. (n * n * n - 1) |-> getReflectedCellVector([numCellsInLine |-> n], i)]]
NeighbouringCellsOffsets ==
    [n \in LayoutSizes |-> fillNeighbouringCellsOffsets([numCellsInLine |-> n])]

NoGrid ==
    [exists |-> FALSE, linearSize |-> 0, cellSize |-> [num |-> 0, den |-> 1],
     numCellsInLine |-> 0, numCells |-> 0, cells |-> <<>>, reflectedCell |-> <<>>,
     neighbouringCellsOffsets |-> <<>>]

\* floor(linearSize / cellSize) + 2
NumCellsInLineFor(linearSize, cellSize) == linearSize \div cellSize + 2

CtorAccepts_CountsHalo(linearSize, cellSize) ==
    /\ linearSize > 0
    /\ cellSize > 0
    /\ NumCellsInLineFor(linearSize, cellSize) >= 2

CtorAccepts(linearSize, cellSize) ==
    /\ linearSize > 0
    /\ cellSize > 0
    /\ NumCellsInLineFor(linearSize, cellSize) >= 3

NeighbourGridCtor(linearSize, cellSize) ==
    LET n == NumCellsInLineFor(linearSize, cellSize)
        numCells == n * n * n
        base == [exists |-> TRUE, linearSize |-> linearSize,
                 cellSize |-> [num |-> linearSize, den |-> n - 2],
                 numCellsInLine |-> n, numCells |-> numCells,
                 cells |-> [i \in 0 .. (numCells - 1) |-> <<>>],
                 reflectedCell |-> [i \in 0 .. (numCells - 1) |-> NoReflection],
                 neighbouringCellsOffsets |-> <<>>]
        aliased == [base EXCEPT !.reflectedCell =
                        [i \in 0 .. (numCells - 1) |->
                            IF isCellReflected(base, i)
                            THEN ReflectedCells[n][i] ELSE NoReflection]]
    IN [aliased EXCEPT !.neighbouringCellsOffsets = NeighbouringCellsOffsets[n]]

\* index of the bucket getCellVector returns a reference to
getCellVector(g, cellNo) ==
    IF g.reflectedCell[cellNo] = NoReflection THEN cellNo ELSE g.reflectedCell[cellNo]

add(g, idx, position) ==
    LET i == positionToCellNo(g, position)
    IN [g EXCEPT !.cells[getCellVector(g, i)] = Append(@, idx)]

remove_Whole(g, idx, position) ==
    LET i == positionToCellNo(g, position)
    IN [g EXCEPT !.cells[getCellVector(g, i)] = <<>>]

remove(g, idx, position) ==
    LET i == positionToCellNo(g, position)
    IN [g EXCEPT !.cells[getCellVector(g, i)] = EraseFirst(@, idx)]

clear(g) ==
    [g EXCEPT !.cells = [i \in DOMAIN g.cells |-> IF i < g.numCells THEN <<>> ELSE g.cells[i]]]

getCell(g, position) == g.cells[getCellVector(g, positionToCellNo(g, position))]

RECURSIVE ConcatCells(_, _, _)
ConcatCells(g, cellNo, offsets) ==
    IF offsets = <<>> THEN <<>>
    ELSE g.cells[getCellVector(g, cellNo + Head(offsets))]
             \o ConcatCells(g, cellNo, Tail(offsets))

getNeighbours(g, position) ==
    ConcatCells(g, positionToCellNo(g, position), g.neighbouringCellsOffsets)

resize_KeepTables(g, linearSize_, cellSize_) ==
    LET numCellsInLine_ == NumCellsInLineFor(linearSize_, cellSize_)
        g1 == [g EXCEPT !.linearSize = linearSize_,
                        !.cellSize = [num |-> linearSize_, den |-> numCellsInLine_ - 2]]
        g2 == [g1 EXCEPT !.numCellsInLine = numCellsInLine_,
                         !.numCells = numCellsInLine_ * numCellsInLine_ * numCellsInLine_]
        g3 == IF g.numCells < g2.numCells
              THEN [g2 EXCEPT !.cells = VecResize(g.cells, g2.numCells, <<>>),
                              !.reflectedCell = VecResize(g.reflectedCell, g2.numCells, 0)]
              ELSE g2
    IN clear(g3)

resize(g, linearSize_, cellSize_) ==
    LET numCellsInLine_ == NumCellsInLineFor(linearSize_, cellSize_)
        g1 == [g EXCEPT !.linearSize = linearSize_,
                        !.cellSize = [num |-> linearSize_, den |-> numCellsInLine_ - 2]]
    IN IF g.numCellsInLine = numCellsInLine_ THEN clear(g1)
       ELSE LET g2 == [g1 EXCEPT !.numCellsInLine = numCellsInLine_,
                                 !.numCells = numCellsInLine_ * numCellsInLine_ * numCellsInLine_]
                g3 == IF g.numCells < g2.numCells
                      THEN [g2 EXCEPT !.cells = VecResize(g.cells, g2.numCells, <<>>),
                                      !.reflectedCell = VecResize(g.reflectedCell, g2.numCells, 0)]
                      ELSE g2
                g4 == [g3 EXCEPT !.reflectedCell =
                          [i \in DOMAIN g3.reflectedCell |->
                              IF i < g3.numCells THEN ReflectedCells[numCellsInLine_][i]
                              ELSE g3.reflectedCell[i]]]
                g5 == clear(g4)
            IN [g5 EXCEPT !.neighbouringCellsOffsets = NeighbouringCellsOffsets[numCellsInLine_]]

(***************************************************************************)
(* The grid and its caller as a state machine.  held is the caller's       *)
(* record of the position every particle index was added at; gridCall is the *)
(* last call and how it ended.                                             *)
(***************************************************************************)
LinearSizes == 0 .. MaxLinearSize
\* cell sizes up to the first one that is too big for the box
CellSizes(L) == 0 .. (L + 1)

\* the positions a caller adds particles at: the corner at the origin, a point with
\* a high, a middle and a low coordinate, and one point outside the box
AddPositions(L) ==
    { [i \in Axes |-> 0],
      [i \in Axes |-> CASE i = 0 -> L - 1 [] i = 1 -> L \div 2 [] i = 2 -> 0],
      [i \in Axes |-> IF i = 0 THEN L ELSE 0] }
\* every position of the box
AllPositions(L) == [Axes -> 0 .. (L - 1)]

NoHeld == [p \in Particles |-> NoPos]
\* the last call: its name, and the arguments of an accepted layout request
Call(op, L, c) == [op |-> op, linearSize |-> L, cellSize |-> c]

\* no grid is constructed
GridAbsent ==
    /\ grid = NoGrid
    /\ held = NoHeld
    /\ gridCall = Call("none", 0, 0)

\* the grid on its own: no packing is constructed
NoPacking == [exists |-> FALSE]
NoPackingCall == [op |-> "none", accepted |-> FALSE]
PackingAbsent == packing = NoPacking /\ packingCall = NoPackingCall

\* no driver is constructed
NoDriver == [phase |-> "none"]
DriverAbsent == simPacking = NoPacking /\ driver = NoDriver /\ threads = <<>>
TwinAbsent == twin = <<>> /\ tape = <<>>
NoSimulation == [phase |-> "none"]
SimulationAbsent == sim = NoSimulation
NoLogger == [exists |-> FALSE]
LoggerAbsent == logger = NoLogger
\* no scaler is asked for
NoFactory == [pc |-> "none"]
FactoryAbsent == factory = NoFactory
\* no node is cast
NoNode == [pc |-> "none"]
NodeAbsent == node = NoNode

InitGrid ==
    /\ GridAbsent /\ PackingAbsent /\ DriverAbsent
    /\ TwinAbsent /\ SimulationAbsent /\ LoggerAbsent /\ FactoryAbsent /\ NodeAbsent

Construct(L, c) ==
    /\ ~grid.exists
    /\ IF CtorAccepts(L, c)
       THEN /\ gridCall' = Call("constructed", L, c)
            /\ grid' = NeighbourGridCtor(L, c)
       ELSE /\ gridCall' = Call("refused", 0, 0)
            /\ UNCHANGED grid
    /\ UNCHANGED <<held, packingVars, simVars, ctlVars>>

\* resize throws before it has written anything when the request is refused
Resize(L, c) ==
    /\ grid.exists
    /\ IF CtorAccepts(L, c)
       THEN /\ gridCall' = Call("resized", L, c)
            /\ grid' = resize(grid, L, c)
            /\ held' = NoHeld
       ELSE /\ gridCall' = Call("refused", 0, 0)
            /\ UNCHANGED <<grid, held>>
    /\ UNCHANGED <<packingVars, simVars, ctlVars>>

\* a position outside [0, linearSize) makes positionToCellNo throw before the
\* grid is touched
Add(idx, position) ==
    /\ grid.exists
    /\ held[idx] = NoPos
    /\ positionInRange(grid, position)
    /\ gridCall' = Call("added", 0, 0)
    /\ grid' = add(grid, idx, position)
    /\ held' = [held EXCEPT ![idx] = position]
    /\ UNCHANGED <<packingVars, simVars, ctlVars>>

Remove(idx) ==
    /\ grid.exists
    /\ held[idx] # NoPos
    /\ gridCall' = Call("removed", 0, 0)
    /\ grid' = remove(grid, idx, held[idx])
    /\ held' = [held EXCEPT ![idx] = NoPos]
    /\ UNCHANGED <<packingVars, simVars, ctlVars>>

NextGrid ==
    \/ \E L \in LinearSizes : \E c \in CellSizes(L) : Construct(L, c)
    \/ \E L \in LinearSizes : \E c \in CellSizes(L) : Resize(L, c)
    \/ \E idx \in Particles, position \in AddPositions(grid.linearSize) : Add(idx, position)
    \/ \E idx \in Particles : Remove(idx)

SpecGrid == InitGrid /\ [][NextGrid]_vars

(***************************************************************************)
(* Properties of the neighbour grid.                                       *)
(***************************************************************************)
RealCells(g) == 0 .. (g.numCells - 1)
AllHeld == \A idx \in Particles : held[idx] # NoPos

\* distance of two coordinates along one axis under the periodic boundary
PeriodicSeparation(a, b, L) == Min2(Abs(a - b), L - Abs(a - b))

\* what a caller can observe of a grid: its sizes, the aliasing table, the
\* offsets and the buckets of the cells of the current layout
Observable(g) ==
    [linearSize |-> g.linearSize, cellSize |-> g.cellSize,
     numCellsInLine |-> g.numCellsInLine, numCells |-> g.numCells,
     reflectedCell |-> [i \in RealCells(g) |-> g.reflectedCell[i]],
     cells |-> [i \in RealCells(g) |-> g.cells[i]],
     neighbouringCellsOffsets |-> g.neighbouringCellsOffsets]

\* what a caller observes of NeighbourGrid(L, c), for every accepted request
FreshObservable ==
    [L \in 1 .. MaxLinearSize |->
        [c \in 1 .. L |-> Observable(NeighbourGridCtor(L, c))]]

C3_NoDuplicates ==
    (grid.exists /\ AllHeld) =>
        \A p \in AllPositions(grid.linearSize) :
            \A idx \in Particles : CountIn(getNeighbours(grid, p), idx) <= 1

C5_ResizeIsFresh ==
    [][ (gridCall'.op = "resized"
            /\ Resize(gridCall'.linearSize, gridCall'.cellSize)) =>
           /\ Observable(grid') = FreshObservable[gridCall'.linearSize][gridCall'.cellSize]
           /\ getNeighbours(grid', [i \in Axes |-> 0]) = <<>>
           /\ getCell(grid', [i \in Axes |-> 0]) = <<>>
           /\ grid'.numCellsInLine = grid.numCellsInLine =>
                 /\ grid'.reflectedCell = grid.reflectedCell
                 /\ grid'.neighbouringCellsOffsets = grid.neighbouringCellsOffsets
                 /\ DOMAIN grid'.cells = DOMAIN grid.cells ]_vars

\* a resize that has shrunk the grid and left filled buckets behind the new layout
C5_Witness ==
    /\ grid.exists
    /\ gridCall.op = "resized"
    /\ grid.numCellsInLine = 3
    /\ \E i \in DOMAIN grid.cells : i >= grid.numCells /\ grid.cells[i] # <<>>

(***************************************************************************)
(* Floating-point numbers.  A double is modelled with a mantissa of        *)
(* MantissaBits bits: a value is an integer number of units, Unit units    *)
(* make 1.0, and the representable values are those whose magnitude is a   *)
(* mantissa below 2^MantissaBits times a power of two.  Every arithmetic   *)
(* operation yields the representable value nearest to the exact result,   *)
(* ties to the even mantissa, as IEEE 754 does.                            *)
(***************************************************************************)
MantissaBits == 3
Unit == 2 ^ (MantissaBits + 1)

\* the exponent e >= 0 with a / (d * 2^e) below 2^MantissaBits
RECURSIVE RoundingExponent(_, _)
RoundingExponent(a, d) ==
    IF a < (2 ^ MantissaBits) * d THEN 0 ELSE 1 + RoundingExponent(a, 2 * d)

\* the representable value nearest to n / d units (d > 0)
Fl(n, d) ==
    LET a == Abs(n)
        e == RoundingExponent(a, d)
        D == d * (2 ^ e)
        q == a \div D
        r == a % D
        m == IF 2 * r > D \/ (2 * r = D /\ q % 2 = 1) THEN q + 1 ELSE q
    IN  IF n < 0 THEN -(m * (2 ^ e)) ELSE m * (2 ^ e)

FAdd(x, y) == Fl(x + y, 1)
FMul(x, y) == Fl(x * y, Unit)
FDiv(x, y) == Fl(x * Unit, y)
\* floor of a value, as a number of whole Units
Floor(x) == x \div Unit
\* std::cbrt: the cube root in units, to the nearest unit, then rounded
Cbrt(x) ==
    LET X == 8 * x * Unit * Unit
        k == CHOOSE k \in 0 .. (x + Unit) : (2 * k - 1) ^ 3 <= X /\ X < (2 * k + 1) ^ 3
    IN  Fl(k, 1)

(***************************************************************************)
(* Shape and Packing (src/core/Shape.cpp, src/core/Packing.cpp).  A shape  *)
(* is its position, relative to the box, and its orientation; the packing  *)
(* is its shapes and the linear size of the box.                           *)
(***************************************************************************)
\* BoundaryConditions::getCorrection: the whole number of box lengths that folds
\* the position back into the box
getCorrection(position) == [i \in Axes |-> -(Floor(position[i]) * Unit)]

\* BoundaryConditions::getTranslation between two coordinates: the minimum image
MinimumImage(d) == d - Unit * ((2 * d + Unit) \div (2 * Unit))

\* Shape::translate
translate(shape, translation) ==
    LET moved == [i \in Axes |-> FAdd(shape.position[i], translation[i])]
        correction == getCorrection(moved)
    IN  [shape EXCEPT !.position = [i \in Axes |-> FAdd(moved[i], correction[i])]]

\* the diameter of the hard spheres the packing is made of
Diameter == Unit \div 4

\* Shape::overlap for hard spheres: the minimum-image distance of the centres,
\* in the box of the given linear size, is below the diameter
overlap(shape, other, linearSize) ==
    LET d(i) == MinimumImage(shape.position[i] - other.position[i]) * linearSize
    IN  d(0) * d(0) + d(1) * d(1) + d(2) * d(2) < (Diameter * Unit) * (Diameter * Unit)

areAnyParticlesOverlapping(pk) ==
    \E i, j \in Particles :
        i < j /\ overlap(pk.shapes[i], pk.shapes[j], pk.linearSize)

isAnyParticleCollidingWith(pk, i) ==
    \E j \in Particles :
        i # j /\ overlap(pk.shapes[i], pk.shapes[j], pk.linearSize)

\* Packing::tryTranslation: the packing it leaves and what it returns
tryTranslation(pk, particleIdx, translation_) ==
    LET translation == [i \in Axes |-> FDiv(translation_[i], pk.linearSize)]
        moved == [pk EXCEPT !.shapes[particleIdx] = translate(@, translation)]
        back == [i \in Axes |-> -translation[i]]
    IN  IF isAnyParticleCollidingWith(moved, particleIdx)
        THEN [packing |-> [moved EXCEPT !.shapes[particleIdx] = translate(@, back)],
              result |-> FALSE]
        ELSE [packing |-> moved, result |-> TRUE]

\* Packing::tryScaling
tryScaling(pk, scaleFactor) ==
    LET linearSizeSaved == pk.linearSize
        scaled == [pk EXCEPT !.linearSize = FMul(@, Cbrt(scaleFactor))]
    IN  IF scaleFactor < Unit /\ areAnyParticlesOverlapping(scaled)
        THEN [packing |-> [scaled EXCEPT !.linearSize = linearSizeSaved], result |-> FALSE]
        ELSE [packing |-> scaled, result |-> TRUE]

(***************************************************************************)
(* The packing and its caller as a state machine.  packingCall is the last *)
(* trial and what it returned.                                             *)
(***************************************************************************)
\* the largest box, in whole Units, a trial scaling is proposed for
MaxBoxSize == 2

Vec(x, y, z) == [i \in Axes |-> CASE i = 0 -> x [] i = 1 -> y [] i = 2 -> z]

\* the packings a caller constructs: two spheres half a box apart along the first
\* axis, the first one at the origin
InitialPackings ==
    { [exists |-> TRUE,
       shapes |-> [p \in Particles |->
                      [position |-> Vec(p * (Unit \div 2), 0, 0), orientation |-> 0]],
       linearSize |-> L] : L \in {Unit, 2 * Unit} }

\* the translations a caller tries, in units of length: small and large steps along
\* the first axis
Translations == { Vec(t, 0, 0) : t \in {-(Unit \div 4), -3, -1, 1, 3, Unit \div 4} }

\* the volume factors a caller tries: an eighth, one, eight times
ScaleFactors == {Unit \div 8, Unit, 8 * Unit}

\* Packing::Packing refuses a non-positive size and overlapping shapes
InitPacking ==
    /\ GridAbsent
    /\ DriverAbsent
    /\ TwinAbsent /\ SimulationAbsent /\ LoggerAbsent /\ FactoryAbsent /\ NodeAbsent
    /\ packing \in InitialPackings
    /\ packing.linearSize > 0
    /\ ~areAnyParticlesOverlapping(packing)
    /\ packingCall = NoPackingCall

TryTranslation(particleIdx, translation) ==
    LET r == tryTranslation(packing, particleIdx, translation)
    IN  /\ packing' = r.packing
        /\ packingCall' = [op |-> "tryTranslation", accepted |-> r.result]
        /\ UNCHANGED <<gridVars, simVars, ctlVars>>

TryScaling(scaleFactor) ==
    LET r == tryScaling(packing, scaleFactor)
    IN  /\ scaleFactor > 0
        /\ r.packing.linearSize <= MaxBoxSize * Unit
        /\ packing' = r.packing
        /\ packingCall' = [op |-> "tryScaling", accepted |-> r.result]
        /\ UNCHANGED <<gridVars, simVars, ctlVars>>

NextPacking ==
    \/ \E particleIdx \in Particles, translation \in Translations :
           TryTranslation(particleIdx, translation)
    \/ \E scaleFactor \in ScaleFactors : TryScaling(scaleFactor)

SpecPacking == InitPacking /\ [][NextPacking]_vars

\* the last trial was refused by the packing
Rejected(op) == packingCall.op = op /\ ~packingCall.accepted

(***************************************************************************)
(* C6: a rejected trial, a translation that collides or a scaling the      *)
(* packing rejects, leaves every position, every orientation and the box   *)
(* size exactly as they were before the trial.                             *)
(***************************************************************************)
C6_RejectedTrialRestores ==
    [][(packingCall'.op \in {"tryTranslation", "tryScaling"} /\ ~packingCall'.accepted)
          => packing' = packing]_vars

(***************************************************************************)
(* C7: after construction and after every sequence of translations and     *)
(* scalings, accepted or rejected, every coordinate of every position lies *)
(* in [0, 1).                                                              *)
(***************************************************************************)
C7_PositionsFolded ==
    packing.exists =>
        \A p \in Particles, i \in Axes :
            0 <= packing.shapes[p].position[i] /\ packing.shapes[p].position[i] < Unit

(***************************************************************************)
(* The packing the driver samples (Simulation.cpp calls tryMove,           *)
(* acceptMove, tryScaling, revertScaling, getMoveThreads) and the domain   *)
(* decomposition.  Positions are relative to the box and taken along the   *)
(* axis the domains divide: RingPoints equally spaced points on a ring.    *)
(* The particles are hard spheres whose diameter is the range radius.      *)
(***************************************************************************)
RingPoints == 12
RangeRadius == 2
\* the box lengths the volume scaler moves between
BoxLengths == {8, 12}
\* the move threads of the packing, Packing::getMoveThreads of them
MoveThreads == 0 .. 1
\* the energy difference of a trial the packing refuses
Infinity == 1
NoTrial == [idx |-> -1, position |-> -1, delta |-> 0]

Fold(x) == x % RingPoints
RingDistance(x, y) == Min2(Fold(x - y), Fold(y - x))

\* the overlap oracle: the centres are closer than the diameter in the box of length L
overlapBetween(x, y, L) == RingDistance(x, y) * L < RangeRadius * RingPoints

\* the number of overlapping pairs, by a scan of all pairs
bruteForceOverlapCount(pos, L) ==
    Cardinality({pair \in Particles \X Particles :
                    pair[1] < pair[2] /\ overlapBetween(pos[pair[1]], pos[pair[2]], L)})

\* the number of particles other than idx that a sphere at x overlaps
overlapsOf(pos, idx, x, L) ==
    Cardinality({j \in Particles : j # idx /\ overlapBetween(x, pos[j], L)})

\* the neighbour grid of the packing: floor(L / range radius) cells
cellDivisions(L) == L \div RangeRadius
cellPoints(L) == RingPoints \div cellDivisions(L)
cellOf(x, L) == x \div cellPoints(L)
\* the cells a neighbour query at x reads, and the particles in them
neighbourCells(x, L) ==
    {(cellOf(x, L) + o) % cellDivisions(L) : o \in {-1, 0, 1}}
neighboursAt(pos, x, L) ==
    {j \in Particles : cellOf(pos[j], L) \in neighbourCells(x, L)}

\* DomainDecomposition: the region of every position after the shift by the
\* origin, the bucket of every region, and the active domain of every region, the
\* region contracted by one grid cell on both faces
regionPoints(numDomains) == RingPoints \div numDomains
regionOf(x, origin, numDomains) == Fold(x - origin) \div regionPoints(numDomains)
DecompositionAccepts(L, numDomains) == regionPoints(numDomains) >= 2 * cellPoints(L)
DomainDecomposition(pos, L, numDomains, origin) ==
    [particlesInRegion |->
        [d \in 0 .. (numDomains - 1) |->
            {p \in Particles : regionOf(pos[p], origin, numDomains) = d}],
     activeDomain |->
        [d \in 0 .. (numDomains - 1) |->
            {x \in 0 .. (RingPoints - 1) :
                /\ d * regionPoints(numDomains) + cellPoints(L) <= Fold(x - origin)
                /\ Fold(x - origin) <= (d + 1) * regionPoints(numDomains) - cellPoints(L)}]]
\* no domain decomposition: every position is allowed
NoBoundaries == 0 .. (RingPoints - 1)

\* Packing::tryMove on move thread t: the trial is kept in the thread's shadow, the
\* particle itself is not touched.  A new position outside the active domain is
\* refused before any neighbour is looked at; a move that adds overlaps is refused
packingTryMove(pk, t, idx, translation, boundaries) ==
    LET position == Fold(pk.pos[idx] + translation)
        delta == overlapsOf(pk.pos, idx, position, pk.length)
                     - overlapsOf(pk.pos, idx, pk.pos[idx], pk.length)
    IN  IF position \notin boundaries
        THEN [packing |-> [pk EXCEPT !.pending[t] =
                              [idx |-> idx, position |-> position, delta |-> 0]],
              dE |-> Infinity]
        ELSE [packing |-> [pk EXCEPT !.pending[t] =
                              [idx |-> idx, position |-> position, delta |-> delta]],
              dE |-> IF delta > 0 THEN Infinity ELSE 0]

\* Packing::acceptMove on move thread t: commits the thread's pending trial
packingAcceptMove(pk, t) ==
    [pk EXCEPT !.pos[pk.pending[t].idx] = pk.pending[t].position,
               !.overlapCount = @ + pk.pending[t].delta,
               !.pending[t] = NoTrial]

\* Packing::tryScaling: the box is scaled at once, the overlaps are counted anew
packingTryScaling(pk, newLength) ==
    LET count == bruteForceOverlapCount(pk.pos, newLength)
    IN  [packing |-> [pk EXCEPT !.length = newLength, !.overlapCount = count,
                                !.lastLength = pk.length,
                                !.lastOverlapCount = pk.overlapCount],
         dE |-> IF count > pk.overlapCount THEN Infinity ELSE 0]

\* a box too short for a neighbour grid of cells of the interaction range
RefusedLength == 1
\* Packing::tryScaling with the neighbour grid: a box the grid refuses is a
\* rejected trial, reverted by the packing and reported as the sentinel
packingTryScalingWithGrid(pk, newLength) ==
    IF CtorAccepts(newLength, RangeRadius) THEN packingTryScaling(pk, newLength)
    ELSE [packing |-> [pk EXCEPT !.lastLength = pk.length,
                                 !.lastOverlapCount = pk.overlapCount],
          dE |-> Infinity]

\* Packing::revertScaling: the box, the grid and the overlap count of before
packingRevertScaling(pk) ==
    [pk EXCEPT !.length = pk.lastLength, !.overlapCount = pk.lastOverlapCount]

(***************************************************************************)
(* The driver, Simulation::perform, as a state machine.  driver.phase is   *)
(* the place of the master thread in performCycle; threads[t] is the place *)
(* of the thread of region t in its sweep, with what its trials read and   *)
(* wrote since the sweep began.                                            *)
(***************************************************************************)
\* the cycles perform runs
MaxCycles == 2

\* the random numbers of [0, 1) the driver draws, in thirds: 0, 1/3, 2/3
UnitInterval == {0, 1, 2}
\* exp(-dE / T) in thirds: 0 for an infinite dE, 1 for dE = 0
Exp(dE) == IF dE = Infinity THEN 0 ELSE 3
\* the weights exp(exponent) a finite exponent of a box move can have, in thirds
ScalingWeights(dE) == IF dE = Infinity THEN {0} ELSE {1, 3}

\* the origins the decomposition is drawn at, the translations a trial draws
Origins == {0, 3}
TrialTranslations == {-3, 2}
\* the positions the sampled packings start from
InitialPositions == {<<5, 6>>, <<3, 4>>, <<2, 8>>}

NoAccess == [readP |-> {}, writeP |-> {}, readC |-> {}, writeC |-> {}, crossed |-> FALSE]
IdleThread ==
    [pc |-> "idle", movesLeft |-> 0, dE |-> 0, wasMoved |-> FALSE, access |-> NoAccess]

\* Simulation::Simulation over a packing of hard spheres
InitSim ==
    /\ GridAbsent
    /\ PackingAbsent
    /\ TwinAbsent /\ SimulationAbsent /\ LoggerAbsent /\ FactoryAbsent /\ NodeAbsent
    /\ \E start \in InitialPositions, numDomains \in {1, 2} :
        LET pos == [p \in Particles |-> start[p + 1]]
        IN  /\ Cardinality(Particles) > 0
            /\ numDomains > 0
            /\ numDomains <= Cardinality(MoveThreads)
            /\ simPacking = [pos |-> pos, length |-> 12,
                             overlapCount |-> bruteForceOverlapCount(pos, 12),
                             pending |-> [t \in MoveThreads |-> NoTrial],
                             lastLength |-> 12,
                             lastOverlapCount |-> bruteForceOverlapCount(pos, 12)]
            /\ driver = [phase |-> "idle", cycle |-> 0, numDomains |-> numDomains,
                         particlesInRegion |-> <<>>, activeDomain |-> <<>>, dE |-> 0,
                         refused |-> FALSE, wasScaled |-> FALSE]
    /\ threads = [t \in MoveThreads |-> IdleThread]

\* Simulation::performCycle up to the sweeps: one sweep of all particles, or the
\* decomposition at a random origin and one sweep for each region
PerformCycle ==
    /\ driver.phase = "idle"
    /\ driver.cycle < MaxCycles
    /\ IF driver.numDomains = 1
       THEN /\ driver' = [driver EXCEPT !.phase = "moves"]
            /\ threads' = [threads EXCEPT ![0] =
                  [IdleThread EXCEPT !.pc = "ready", !.movesLeft = Cardinality(Particles)]]
       ELSE \E origin \in Origins :
            IF DecompositionAccepts(simPacking.length, driver.numDomains)
            THEN LET dd == DomainDecomposition(simPacking.pos, simPacking.length,
                                               driver.numDomains, origin)
                 IN  /\ driver' = [driver EXCEPT
                            !.phase = "moves",
                            !.particlesInRegion = dd.particlesInRegion,
                            !.activeDomain = dd.activeDomain]
                     /\ threads' = [t \in MoveThreads |->
                            IF t < driver.numDomains
                            THEN [IdleThread EXCEPT
                                    !.pc = IF Cardinality(Particles) < driver.numDomains
                                           THEN "done" ELSE "ready",
                                    !.movesLeft = Cardinality(Particles) \div driver.numDomains]
                            ELSE IdleThread]
            ELSE /\ driver' = [driver EXCEPT !.phase = "aborted"]
                 /\ UNCHANGED threads
    /\ UNCHANGED <<simPacking, gridVars, packingVars, ctlVars>>

\* what the sweep of thread t passes to tryMove: all particles and no boundaries
\* without domain division, the bucket and the active domain of region t with it
particleIndicesOf(t) ==
    IF driver.numDomains = 1 THEN Particles ELSE driver.particlesInRegion[t]
boundariesOf(t) ==
    IF driver.numDomains = 1 THEN NoBoundaries ELSE driver.activeDomain[t]

\* particleIndices[particleDistribution(mt)] with the distribution over
\* 0 .. size() - 1: an element of the vector, and for an empty vector, where
\* size() - 1 wraps around, whatever is read out of bounds: the index of any
\* particle, or a value (-1 here) that is no index at all
TrialTargets(particleIndices) ==
    IF particleIndices = {} THEN Particles \cup {-1} ELSE particleIndices

\* Simulation::tryMove up to the answer of the packing
TryMove(t) ==
    /\ driver.phase = "moves"
    /\ threads[t].pc = "ready"
    /\ \E idx \in TrialTargets(particleIndicesOf(t)), translation \in TrialTranslations :
        IF idx \notin Particles
        THEN \* the packing refuses the index, or the read faults: the run ends
             /\ driver' = [driver EXCEPT !.phase = "aborted"]
             /\ UNCHANGED <<simPacking, threads>>
        ELSE LET r == packingTryMove(simPacking, t, idx, translation, boundariesOf(t))
                 old == simPacking.pos[idx]
                 new == r.packing.pending[t].position
                 L == simPacking.length
                 looked == new \in boundariesOf(t)
             IN  /\ simPacking' = r.packing
                 /\ threads' = [threads EXCEPT
                        ![t].pc = "tried",
                        ![t].dE = r.dE,
                        ![t].access.readP = @ \cup {idx} \cup
                            (IF looked
                             THEN neighboursAt(simPacking.pos, old, L)
                                      \cup neighboursAt(simPacking.pos, new, L)
                             ELSE {}),
                        ![t].access.readC = @ \cup
                            (IF looked
                             THEN neighbourCells(old, L) \cup neighbourCells(new, L)
                             ELSE {})]
                 /\ UNCHANGED driver
    /\ UNCHANGED <<gridVars, packingVars, ctlVars>>

\* the rest of Simulation::tryMove: the Metropolis test, acceptMove when it
\* passes, and the end of the loop body in the sweep
DecideMove(t) ==
    /\ driver.phase = "moves"
    /\ threads[t].pc = "tried"
    /\ \E u \in UnitInterval :
        LET trial == simPacking.pending[t]
            old == simPacking.pos[trial.idx]
            L == simPacking.length
            left == threads[t].movesLeft - 1
            next == IF left = 0 THEN "done" ELSE "ready"
        IN  IF u <= Exp(threads[t].dE)
            THEN /\ simPacking' = packingAcceptMove(simPacking, t)
                 /\ threads' = [threads EXCEPT
                        ![t].pc = next,
                        ![t].movesLeft = left,
                        ![t].wasMoved = TRUE,
                        ![t].access.writeP = @ \cup {trial.idx},
                        ![t].access.writeC = @ \cup
                            (IF cellOf(old, L) # cellOf(trial.position, L)
                             THEN {cellOf(old, L), cellOf(trial.position, L)}
                             ELSE {}),
                        ![t].access.crossed = @ \/
                            \E j \in Particles \ (particleIndicesOf(t) \cup {trial.idx}) :
                                overlapBetween(old, simPacking.pos[j], L)
                                    # overlapBetween(trial.position, simPacking.pos[j], L)]
            ELSE \* the trial is abandoned: its shadow is dead, the next tryMove of the
                 \* thread overwrites it
                 /\ simPacking' = [simPacking EXCEPT !.pending[t] = NoTrial]
                 /\ threads' = [threads EXCEPT ![t].pc = next, ![t].movesLeft = left,
                                                ![t].wasMoved = FALSE]
    /\ UNCHANGED <<driver, gridVars, packingVars, ctlVars>>

\* a parallel region that the master thread leaves without waiting for the others
EndMoves_NoBarrier ==
    /\ driver.phase = "moves"
    /\ threads[0].pc \in {"idle", "done"}
    /\ driver' = [driver EXCEPT !.phase = "scaling"]
    /\ UNCHANGED <<threads, simPacking, gridVars, packingVars, ctlVars>>

\* the end of the sweeps: the loop of the single sweep ends, or all threads reach
\* the barrier that ends the parallel region
EndMoves ==
    /\ driver.phase = "moves"
    /\ \A t \in MoveThreads : threads[t].pc \in {"idle", "done"}
    /\ driver' = [driver EXCEPT !.phase = "scaling"]
    /\ threads' = [t \in MoveThreads |-> IdleThread]
    /\ UNCHANGED <<simPacking, gridVars, packingVars, ctlVars>>

\* Simulation::tryScaling up to the answer of the packing
TrySimScaling ==
    /\ driver.phase = "scaling"
    /\ \E newLength \in BoxLengths \cup {RefusedLength} :
        LET r == packingTryScalingWithGrid(simPacking, newLength)
        IN  /\ simPacking' = r.packing
            /\ driver' = [driver EXCEPT !.phase = "scaled", !.dE = r.dE,
                                        !.refused = ~CtorAccepts(newLength, RangeRadius)]
    /\ UNCHANGED <<threads, gridVars, packingVars, ctlVars>>

\* the rest of Simulation::tryScaling, revertScaling when the test fails, and the
\* end of the cycle
DecideScaling ==
    /\ driver.phase = "scaled"
    /\ \E u \in UnitInterval, weight \in ScalingWeights(driver.dE) :
        /\ simPacking' = IF u <= weight THEN simPacking ELSE packingRevertScaling(simPacking)
        /\ driver' = [driver EXCEPT
               !.phase = IF driver.cycle + 1 = MaxCycles THEN "finished" ELSE "idle",
               !.cycle = @ + 1,
               !.dE = 0,
               !.refused = FALSE,
               !.wasScaled = u <= weight]
    /\ UNCHANGED <<threads, gridVars, packingVars, ctlVars>>

NextSim ==
    \/ PerformCycle
    \/ \E t \in MoveThreads : TryMove(t)
    \/ \E t \in MoveThreads : DecideMove(t)
    \/ EndMoves
    \/ TrySimScaling
    \/ DecideScaling

SpecSim == InitSim /\ [][NextSim]_vars

\* the particle trials and the box trial that were proposed to the packing and are
\* neither accepted nor dropped by the driver yet
OutstandingMoves == {t \in MoveThreads : threads[t].pc = "tried"}
OutstandingScaling == IF driver.phase = "scaled" THEN 1 ELSE 0

(***************************************************************************)
(* C8: whenever no trial is in progress, the cached overlapCount of the    *)
(* packing is the number of overlapping pairs a scan of all pairs finds    *)
(* under the current positions and box.                                    *)
(***************************************************************************)
C8_CachedCountExact ==
    (driver.phase \in {"idle", "moves", "scaling", "finished"} /\ OutstandingMoves = {})
        => simPacking.overlapCount
               = bruteForceOverlapCount(simPacking.pos, simPacking.length)

(***************************************************************************)
(* C9: during the sweeps of the regions every particle is in the bucket of *)
(* exactly one region, no particle and no grid cell that one thread wrote  *)
(* is read or written by another thread, and no accepted move has created  *)
(* or removed an overlap with a particle of another region.                *)
(***************************************************************************)
C9_DomainIsolation ==
    (driver.phase = "moves" /\ driver.numDomains > 1) =>
        /\ \A p \in Particles :
               Cardinality({d \in 0 .. (driver.numDomains - 1) :
                               p \in driver.particlesInRegion[d]}) = 1
        /\ \A t1, t2 \in MoveThreads :
               t1 # t2 =>
                   /\ threads[t1].access.writeP
                          \cap (threads[t2].access.readP \cup threads[t2].access.writeP) = {}
                   /\ threads[t1].access.writeC
                          \cap (threads[t2].access.readC \cup threads[t2].access.writeC) = {}
        /\ \A t \in MoveThreads : ~threads[t].access.crossed

(***************************************************************************)
(* C10: at every moment at most one trial, of a particle or of the box, is *)
(* outstanding on the packing.                                             *)
(***************************************************************************)
C10_SingleOutstandingTrial ==
    Cardinality(OutstandingMoves) + OutstandingScaling <= 1

(***************************************************************************)
(* C10, amended: every domain thread has at most one trial outstanding, so *)
(* at most numDomains particle trials are outstanding at once (one without *)
(* domain division), and only during the sweeps; the box trial is proposed *)
(* only when no particle trial is outstanding, and between two cycles and  *)
(* after the run no trial is outstanding.                                  *)
(***************************************************************************)
C10_OneOutstandingTrialPerThread ==
    /\ OutstandingMoves \subseteq 0 .. (driver.numDomains - 1)
    /\ Cardinality(OutstandingMoves) <= driver.numDomains
    /\ OutstandingMoves # {} => driver.phase \in {"moves", "aborted"}
    /\ OutstandingScaling = 1 => OutstandingMoves = {}
    /\ driver.phase \in {"idle", "scaling", "finished"} => OutstandingMoves = {}

\* two domain threads have a trial outstanding at once
C10_Witness ==
    /\ driver.numDomains = 2
    /\ OutstandingMoves = {0, 1}
(***************************************************************************)
(* Two executions of the driver side by side.  Both start from the same    *)
(* packing with the same seed, division and interaction, so generator i of *)
(* one run gives the numbers generator i of the other gives: tape[i] is    *)
(* the output of generator i as far as one of the runs has drawn from it,  *)
(* and twin[r].rng[i] is how many numbers run r has drawn from it.  What   *)
(* the runs do not share is the order in which their threads take steps.   *)
(***************************************************************************)
TwinCycles == 1
Runs == {1, 2}
\* the outputs of a generator, as far as the draws below tell them apart
RawNumbers == {0, 1}

\* a distribution over a finite range applied to an output of the generator
Nth(S, raw) == SortedSeqOf(S)[(raw % Cardinality(S)) + 1]
\* unitIntervalDistribution(mt): 0 or 2/3
unitIntervalOf(raw) == 2 * raw

\* the tapes after generator i was drawn from up to its m-th output
Drawn(i, m) ==
    IF Len(tape[i]) >= m THEN {tape}
    ELSE {[tape EXCEPT ![i] = @ \o ext] : ext \in [1 .. (m - Len(tape[i])) -> RawNumbers]}

\* exp(exponent) of a box move: the pressure term lowers it for a growing box
scalingWeight(pk) ==
    IF pk.overlapCount > pk.lastOverlapCount THEN 0
    ELSE IF pk.length > pk.lastLength THEN 1 ELSE 3

InitialRun(pos, numDomains) ==
    [pk |-> [pos |-> pos, length |-> 12,
             overlapCount |-> bruteForceOverlapCount(pos, 12),
             pending |-> [t \in MoveThreads |-> NoTrial],
             lastLength |-> 12,
             lastOverlapCount |-> bruteForceOverlapCount(pos, 12)],
     phase |-> "idle", cycle |-> 0, numDomains |-> numDomains,
     particlesInRegion |-> <<>>, activeDomain |-> <<>>,
     pc |-> [t \in MoveThreads |-> "idle"],
     movesLeft |-> [t \in MoveThreads |-> 0],
     dE |-> [t \in MoveThreads |-> 0],
     rng |-> [t \in MoveThreads |-> 0],
     acceptedMoves |-> 0, acceptedScalings |-> 0]

\* Simulation::Simulation, twice with the same arguments: mts[i] is seeded
\* with seed + i in both
InitTwin ==
    /\ GridAbsent /\ PackingAbsent /\ DriverAbsent
    /\ SimulationAbsent /\ LoggerAbsent /\ FactoryAbsent /\ NodeAbsent
    /\ \E start \in InitialPositions, numDomains \in {1, 2} :
        LET pos == [p \in Particles |-> start[p + 1]]
        IN  /\ numDomains <= Cardinality(MoveThreads)
            /\ twin = [r \in Runs |-> InitialRun(pos, numDomains)]
    /\ tape = [i \in MoveThreads |-> <<>>]

\* Simulation::performCycle of run r up to the sweeps; the origin of the
\* decomposition is drawn from mts[_OMP_THREAD_ID] on the master thread
TwinPerformCycle(r) ==
    LET run == twin[r]
    IN  /\ run.phase = "idle"
        /\ run.cycle < TwinCycles
        /\ IF run.numDomains = 1
           THEN /\ twin' = [twin EXCEPT
                       ![r].phase = "moves",
                       ![r].pc[0] = "ready",
                       ![r].movesLeft[0] = Cardinality(Particles)]
                /\ UNCHANGED tape
           ELSE \E tp \in Drawn(0, run.rng[0] + 1) :
                LET origin == Nth(Origins, tp[0][run.rng[0] + 1])
                    dd == DomainDecomposition(run.pk.pos, run.pk.length,
                                              run.numDomains, origin)
                IN  /\ tape' = tp
                    /\ IF DecompositionAccepts(run.pk.length, run.numDomains)
                       THEN twin' = [twin EXCEPT
                               ![r].phase = "moves",
                               ![r].rng[0] = @ + 1,
                               ![r].particlesInRegion = dd.particlesInRegion,
                               ![r].activeDomain = dd.activeDomain,
                               ![r].pc = [t \in MoveThreads |->
                                   IF t >= run.numDomains THEN "idle"
                                   ELSE IF Cardinality(Particles) < run.numDomains
                                        THEN "done" ELSE "ready"],
                               ![r].movesLeft = [t \in MoveThreads |->
                                   IF t >= run.numDomains THEN 0
                                   ELSE Cardinality(Particles) \div run.numDomains]]
                       ELSE twin' = [twin EXCEPT ![r].phase = "aborted",
                                                 ![r].rng[0] = @ + 1]
        /\ UNCHANGED <<gridVars, packingVars, simVars, sim, logger, frontVars>>

\* Simulation::tryMove of thread t of run r up to the answer of the packing:
\* the translation and the index are drawn from mts[_OMP_THREAD_ID]
TwinTryMove(r, t) ==
    LET run == twin[r]
        particleIndices == IF run.numDomains = 1 THEN Particles
                           ELSE run.particlesInRegion[t]
        boundaries == IF run.numDomains = 1 THEN NoBoundaries ELSE run.activeDomain[t]
    IN  /\ run.phase = "moves"
        /\ run.pc[t] = "ready"
        /\ \E tp \in Drawn(t, run.rng[t] + 2) :
            LET translation == Nth(TrialTranslations, tp[t][run.rng[t] + 1])
                raw == tp[t][run.rng[t] + 2]
                targets == IF particleIndices = {} THEN TrialTargets(particleIndices)
                           ELSE {Nth(particleIndices, raw)}
            IN  /\ tape' = tp
                /\ \E idx \in targets :
                    IF idx \notin Particles
                    THEN twin' = [twin EXCEPT ![r].phase = "aborted",
                                              ![r].rng[t] = @ + 2]
                    ELSE LET res == packingTryMove(run.pk, t, idx, translation, boundaries)
                         IN  twin' = [twin EXCEPT
                                 ![r].pk = res.packing,
                                 ![r].pc[t] = "tried",
                                 ![r].dE[t] = res.dE,
                                 ![r].rng[t] = @ + 2]
        /\ UNCHANGED <<gridVars, packingVars, simVars, sim, logger, frontVars>>

\* the rest of Simulation::tryMove and the count of the move
TwinDecideMove(r, t) ==
    LET run == twin[r]
        left == run.movesLeft[t] - 1
    IN  /\ run.phase = "moves"
        /\ run.pc[t] = "tried"
        /\ \E tp \in Drawn(t, run.rng[t] + 1) :
            LET u == unitIntervalOf(tp[t][run.rng[t] + 1])
                wasMoved == u <= Exp(run.dE[t])
            IN  /\ tape' = tp
                /\ twin' = [twin EXCEPT
                       ![r].pk = IF wasMoved THEN packingAcceptMove(run.pk, t)
                                 ELSE [run.pk EXCEPT !.pending[t] = NoTrial],
                       ![r].pc[t] = IF left = 0 THEN "done" ELSE "ready",
                       ![r].movesLeft[t] = left,
                       ![r].rng[t] = @ + 1,
                       ![r].acceptedMoves = @ + (IF wasMoved THEN 1 ELSE 0)]
        /\ UNCHANGED <<gridVars, packingVars, simVars, sim, logger, frontVars>>

\* a parallel region of run r that the master thread leaves without waiting
TwinEndMoves_NoBarrier(r) ==
    /\ twin[r].phase = "moves"
    /\ twin[r].pc[0] \in {"idle", "done"}
    /\ twin' = [twin EXCEPT ![r].phase = "scaling"]
    /\ UNCHANGED <<tape, gridVars, packingVars, simVars, sim, logger, frontVars>>

\* the end of the sweeps of run r
TwinEndMoves(r) ==
    /\ twin[r].phase = "moves"
    /\ \A t \in MoveThreads : twin[r].pc[t] \in {"idle", "done"}
    /\ twin' = [twin EXCEPT ![r].phase = "scaling",
                            ![r].pc = [t \in MoveThreads |-> "idle"]]
    /\ UNCHANGED <<tape, gridVars, packingVars, simVars, sim, logger, frontVars>>

\* Simulation::tryScaling of run r up to the answer of the packing, with
\* the factor drawn from mts.front()
TwinTryScaling(r) ==
    LET run == twin[r]
    IN  /\ run.phase = "scaling"
        /\ \E tp \in Drawn(0, run.rng[0] + 1) :
            LET newLength == Nth(BoxLengths, tp[0][run.rng[0] + 1])
            IN  /\ tape' = tp
                /\ twin' = [twin EXCEPT
                       ![r].pk = packingTryScaling(run.pk, newLength).packing,
                       ![r].phase = "scaled",
                       ![r].rng[0] = @ + 1]
        /\ UNCHANGED <<gridVars, packingVars, simVars, sim, logger, frontVars>>

\* the rest of Simulation::tryScaling, the count of the box move and the
\* end of the cycle
TwinDecideScaling(r) ==
    LET run == twin[r]
    IN  /\ run.phase = "scaled"
        /\ \E tp \in Drawn(0, run.rng[0] + 1) :
            LET u == unitIntervalOf(tp[0][run.rng[0] + 1])
                wasScaled == u <= scalingWeight(run.pk)
            IN  /\ tape' = tp
                /\ twin' = [twin EXCEPT
                       ![r].pk = IF wasScaled THEN run.pk ELSE packingRevertScaling(run.pk),
                       ![r].phase = IF run.cycle + 1 = TwinCycles THEN "finished" ELSE "idle",
                       ![r].cycle = @ + 1,
                       ![r].rng[0] = @ + 1,
                       ![r].acceptedScalings = @ + (IF wasScaled THEN 1 ELSE 0)]
        /\ UNCHANGED <<gridVars, packingVars, simVars, sim, logger, frontVars>>

NextTwin ==
    \/ \E r \in Runs : TwinPerformCycle(r)
    \/ \E r \in Runs, t \in MoveThreads : TwinTryMove(r, t)
    \/ \E r \in Runs, t \in MoveThreads : TwinDecideMove(r, t)
    \/ \E r \in Runs : TwinEndMoves(r)
    \/ \E r \in Runs : TwinTryScaling(r)
    \/ \E r \in Runs : TwinDecideScaling(r)

SpecTwin == InitTwin /\ [][NextTwin]_vars

\* what a run shows between two cycles: the packing and the counters
Trajectory(run) ==
    [pos |-> run.pk.pos, length |-> run.pk.length, overlapCount |-> run.pk.overlapCount,
     acceptedMoves |-> run.acceptedMoves, acceptedScalings |-> run.acceptedScalings]

(***************************************************************************)
(* C11: two executions from the same packing with the same seed, the same  *)
(* domain divisions and thread-to-region mapping and the same interaction  *)
(* are in the same packing state with the same counter values after the    *)
(* same number of cycles.                                                  *)
(***************************************************************************)
C11_SameTrajectory ==
    (/\ twin[1].phase \in {"idle", "finished"}
     /\ twin[2].phase \in {"idle", "finished"}
     /\ twin[1].cycle = twin[2].cycle)
        => Trajectory(twin[1]) = Trajectory(twin[2])
(***************************************************************************)
(* Simulation::perform cycle by cycle.  sim holds what the constructor and *)
(* perform keep in the Simulation: the step sizes, the two counters, the   *)
(* arguments of the run and the place in its two loops, and what the       *)
(* observables collector was handed.  A step is a length in units of       *)
(* 1 / StepUnit, so that it can be multiplied and divided by 1.1 twice     *)
(* without a remainder.                                                    *)
(***************************************************************************)
StepUnit == 12100
MovesPerEvaluation == 100
ShortThermalisation == 3
ShortAveraging == 4
LongThermalisation == 120
LongAveraging == 81

\* the edge of the cubic box of the sampled packings
BoxEdge == 4 * StepUnit

\* the smallest edge of the box, as evaluateCounters reads it
minDimension(s) == Min2(Min2(s.dimensions[1], s.dimensions[2]), s.dimensions[3])

Times1_1(x) == (x * 11) \div 10
Over1_1(x) == (x * 10) \div 11

\* Counter::total
RECURSIVE total(_)
total(vec) ==
    IF vec = <<>> THEN 0 ELSE vec[1] + total(Tail(vec))

\* Counter::setNumThreads and Counter::reset
setNumThreads(numThreads) ==
    LET zeros == [tid \in 1 .. numThreads |-> 0]
    IN  [moves |-> zeros, movesSinceEvaluation |-> zeros,
         acceptedMoves |-> zeros, acceptedMovesSinceEvaluation |-> zeros]
counterReset(counter) == setNumThreads(Len(counter.moves))

\* Counter::increment called n times on thread tid with the same answer
incrementTimes(counter, tid, n, accepted) ==
    [moves |-> [counter.moves EXCEPT ![tid + 1] = @ + n],
     movesSinceEvaluation |-> [counter.movesSinceEvaluation EXCEPT ![tid + 1] = @ + n],
     acceptedMoves |->
         [counter.acceptedMoves EXCEPT ![tid + 1] = @ + (IF accepted THEN n ELSE 0)],
     acceptedMovesSinceEvaluation |->
         [counter.acceptedMovesSinceEvaluation EXCEPT
             ![tid + 1] = @ + (IF accepted THEN n ELSE 0)]]

\* Counter::resetCurrent
resetCurrent(counter) ==
    [counter EXCEPT
        !.movesSinceEvaluation = [tid \in DOMAIN counter.moves |-> 0],
        !.acceptedMovesSinceEvaluation = [tid \in DOMAIN counter.moves |-> 0]]

getMovesSinceEvaluation(counter) == total(counter.movesSinceEvaluation)
\* a rate that counts as above the band when it is on its upper end
rateAbove_Inclusive(counter) ==
    5 * total(counter.acceptedMovesSinceEvaluation) >= total(counter.movesSinceEvaluation)

\* Counter::getCurrentRate compared with the two ends of the band
rateAbove(counter) ==
    5 * total(counter.acceptedMovesSinceEvaluation) > total(counter.movesSinceEvaluation)
rateBelow(counter) ==
    10 * total(counter.acceptedMovesSinceEvaluation) < total(counter.movesSinceEvaluation)

\* the trial moves one region makes in a cycle with domain division
numMoves(size, numDomains) == size \div numDomains

\* Simulation::performMovesWithoutDomainDivision and
\* performMovesWithDomainDivision as far as the counter shows them: every
\* trial of the sweep is counted on the thread that made it
performMoves(s, wasMoved) ==
    IF s.numDomains = 1
    THEN [s EXCEPT !.moveCounter = incrementTimes(@, 0, s.size, wasMoved)]
    ELSE LET RECURSIVE regions(_, _)
             regions(counter, tid) ==
                 IF tid = s.numDomains THEN counter
                 ELSE regions(incrementTimes(counter, tid,
                                             numMoves(s.size, s.numDomains), wasMoved),
                              tid + 1)
         IN  [s EXCEPT !.moveCounter = regions(@, 0)]

\* an evaluation that lets the rotation step grow by itself when the
\* translation step is held by the box
evaluateCounters_Decoupled(s) ==
    LET evaluatesMoves ==
            getMovesSinceEvaluation(s.moveCounter) >= MovesPerEvaluation * s.size
        up == rateAbove(s.moveCounter)
        down == rateBelow(s.moveCounter)
        s1 == IF ~evaluatesMoves THEN s
              ELSE [s EXCEPT
                      !.moveCounter = resetCurrent(@),
                      !.translationStep =
                          IF up THEN (IF Times1_1(@) <= minDimension(s) THEN Times1_1(@) ELSE @)
                          ELSE IF down THEN Over1_1(@) ELSE @,
                      !.rotationStep =
                          IF up THEN Times1_1(@)
                          ELSE IF down THEN Over1_1(@) ELSE @]
        evaluatesScaling == getMovesSinceEvaluation(s.scalingCounter) >= MovesPerEvaluation
    IN  IF ~evaluatesScaling THEN s1
        ELSE [s1 EXCEPT
                !.scalingCounter = resetCurrent(@),
                !.scalingStep = IF rateAbove(s.scalingCounter) THEN Times1_1(@)
                                ELSE IF rateBelow(s.scalingCounter) THEN Over1_1(@) ELSE @]

\* Simulation::evaluateCounters
evaluateCounters(s) ==
    LET evaluatesMoves ==
            getMovesSinceEvaluation(s.moveCounter) >= MovesPerEvaluation * s.size
        up == rateAbove(s.moveCounter)
        down == rateBelow(s.moveCounter)
        s1 == IF ~evaluatesMoves THEN s
              ELSE [s EXCEPT
                      !.moveCounter = resetCurrent(@),
                      !.translationStep =
                          IF up THEN (IF Times1_1(@) <= minDimension(s) THEN Times1_1(@) ELSE @)
                          ELSE IF down THEN Over1_1(@) ELSE @,
                      !.rotationStep =
                          IF up THEN (IF Times1_1(s.translationStep) <= minDimension(s)
                                      THEN Times1_1(@) ELSE @)
                          ELSE IF down THEN Over1_1(@) ELSE @]
        evaluatesScaling == getMovesSinceEvaluation(s.scalingCounter) >= MovesPerEvaluation
    IN  IF ~evaluatesScaling THEN s1
        ELSE [s1 EXCEPT
                !.scalingCounter = resetCurrent(@),
                !.scalingStep = IF rateAbove(s.scalingCounter) THEN Times1_1(@)
                                ELSE IF rateBelow(s.scalingCounter) THEN Over1_1(@) ELSE @]

\* Simulation::tryScaling as far as the box shows it: an accepted box move
\* leaves the box scaled, a rejected one is reverted.  The accepted moves of a
\* run shrink the box of construction by the factor of the run and bring it
\* back, in turn
scaleBox(s, wasScaled) ==
    IF ~wasScaled THEN s
    ELSE [s EXCEPT !.dimensions =
             IF @[1] = BoxEdge THEN [k \in 1 .. 3 |-> @[k] \div s.answers.factor]
             ELSE [k \in 1 .. 3 |-> @[k] * s.answers.factor]]

\* a cycle that evaluates the counters whether or not the steps are to be adjusted
performCycle_AlwaysEvaluates(s, wasMoved, wasScaled) ==
    evaluateCounters([scaleBox(performMoves(s, wasMoved), wasScaled) EXCEPT
                         !.scalingCounter = incrementTimes(@, 0, 1, wasScaled)])

\* Simulation::performCycle after the sweeps and the box move gave their answers
performCycle(s, wasMoved, wasScaled) ==
    LET moved == performMoves(s, wasMoved)
        scaled == [scaleBox(moved, wasScaled) EXCEPT
                      !.scalingCounter = incrementTimes(@, 0, 1, wasScaled)]
    IN  IF s.shouldAdjustStepSize THEN evaluateCounters(scaled) ELSE scaled
\* the arguments Simulation::Simulation is sampled with: the size of the packing
\* and its move threads, the three steps and the domain divisions
StepArguments ==
    {<<StepUnit, 2 * StepUnit, StepUnit>>, <<4 * StepUnit, 2 * StepUnit, StepUnit>>,
     <<0, 2 * StepUnit, StepUnit>>, <<StepUnit, 0, StepUnit>>,
     <<StepUnit, 2 * StepUnit, 0>>}
\* the bits of an int; a std::size_t has twice as many
IntBits == 3
DomainDivisions ==
    {<<1, 1, 1>>, <<2, 1, 1>>, <<0, 1, 1>>, <<3, 1, 1>>, <<2 ^ IntBits + 1, 1, 1>>}
PackingSizes == {0, 2, 3}

\* the conversions of a std::size_t to int and of an int to std::size_t
toInt(x) ==
    LET low == x % (2 ^ IntBits)
    IN  IF low >= 2 ^ (IntBits - 1) THEN low - 2 ^ IntBits ELSE low
toSize(x) == x % (2 ^ (2 * IntBits))

\* std::accumulate(domainDivisions.begin(), domainDivisions.end(), 1,
\* std::multiplies<>{}) assigned to a std::size_t: the accumulator has the type
\* of the initial value, int
accumulateDivisions(domainDivisions) ==
    toSize(toInt(toInt(toInt(1 * domainDivisions[1]) * domainDivisions[2])
                     * domainDivisions[3]))

\* Frontend::casino on the domain divisions of the input file
FrontendValidates(domainDivisions, scalingThreads) ==
    /\ accumulateDivisions(domainDivisions) > 0
    /\ accumulateDivisions(domainDivisions) <= scalingThreads

\* the conditions Simulation::Simulation expects of its arguments
SimulationCtorAccepts(size, steps, domainDivisions, moveThreads) ==
    /\ size # 0
    /\ steps[1] > 0
    /\ steps[2] > 0
    /\ steps[3] > 0
    /\ accumulateDivisions(domainDivisions) > 0
    /\ accumulateDivisions(domainDivisions) <= moveThreads

\* the answers the trials of a run get: in every MovesPerEvaluation cycles the
\* particle trials of the first `accepted` cycles are accepted and those of the
\* others rejected, and the box move is answered with them or against them; an
\* accepted box move scales the edges by `factor`
AnswerPatterns ==
    [accepted : {0, 9, 10, 11, 20, 21, MovesPerEvaluation}, coupled : BOOLEAN,
     factor : {1, 2}]
NoAnswers == [accepted |-> 0, coupled |-> TRUE, factor |-> 1]

\* Simulation::Simulation; a refused construction leaves no Simulation but
\* the exception, kept here with the arguments that caused it
SimulationCtor(size, steps, domainDivisions, moveThreads) ==
    LET numDomains == accumulateDivisions(domainDivisions)
        arguments == [size |-> size, steps |-> steps, domainDivisions |-> domainDivisions,
                      moveThreads |-> moveThreads,
                      validated |-> FrontendValidates(domainDivisions, moveThreads)]
    IN  IF ~SimulationCtorAccepts(size, steps, domainDivisions, moveThreads)
        THEN [phase |-> "refused", arguments |-> arguments]
        ELSE [phase |-> "constructed", arguments |-> arguments,
              size |-> size, numDomains |-> numDomains,
              translationStep |-> steps[1], rotationStep |-> steps[2],
              scalingStep |-> steps[3],
              dimensions |-> <<BoxEdge, BoxEdge, BoxEdge>>,
              moveCounter |-> setNumThreads(numDomains),
              scalingCounter |-> setNumThreads(1),
              shouldAdjustStepSize |-> FALSE,
              thermalisationCycles |-> 0, averagingCycles |-> 0,
              averagingEvery |-> 0, snapshotEvery |-> 0,
              i |-> 0, answers |-> NoAnswers,
              signal |-> "none", cyclesSinceSignal |-> 0, stored |-> FALSE,
              collector |-> [snapshots |-> <<>>, averagingValues |-> 0]]

InitRun ==
    /\ GridAbsent /\ PackingAbsent /\ DriverAbsent
    /\ TwinAbsent /\ LoggerAbsent /\ FactoryAbsent /\ NodeAbsent
    /\ \E size \in PackingSizes, steps \in StepArguments,
          domainDivisions \in DomainDivisions :
        sim = SimulationCtor(size, steps, domainDivisions, Cardinality(MoveThreads))

\* the arguments perform is sampled with: temperature, pressure, the cycles of
\* the two phases, averagingEvery and snapshotEvery
PerformArguments ==
    {<<1, 1, ShortThermalisation, ShortAveraging, 2, 2>>,
     <<1, 1, ShortThermalisation, ShortAveraging, 3, 1>>,
     <<1, 1, LongThermalisation, LongAveraging, 27, 40>>,
     <<0, 1, ShortThermalisation, ShortAveraging, 2, 2>>,
     <<1, 0, ShortThermalisation, ShortAveraging, 2, 2>>,
     <<1, 1, 0, ShortAveraging, 2, 2>>,
     <<1, 1, ShortThermalisation, 0, 2, 2>>,
     <<1, 1, ShortThermalisation, ShortAveraging, 0, 2>>,
     <<1, 1, ShortThermalisation, ShortAveraging, ShortAveraging, 2>>,
     <<1, 1, ShortThermalisation, ShortAveraging, 2, 0>>}

\* Simulation::perform up to its first loop
Perform ==
    /\ sim.phase = "constructed"
    /\ \E a \in PerformArguments, answers \in AnswerPatterns :
        IF a[1] > 0 /\ a[2] > 0 /\ a[3] > 0 /\ a[4] > 0 /\ a[5] > 0 /\ a[5] < a[4]
        THEN sim' = [sim EXCEPT
                !.phase = "thermalisation",
                !.thermalisationCycles = a[3], !.averagingCycles = a[4],
                !.averagingEvery = a[5], !.snapshotEvery = a[6],
                !.moveCounter = counterReset(@),
                !.scalingCounter = counterReset(@),
                !.collector = [snapshots |-> <<>>, averagingValues |-> 0],
                !.shouldAdjustStepSize = TRUE,
                !.i = 0,
                !.answers = answers]
        ELSE sim' = [sim EXCEPT !.phase = "failed"]
    /\ UNCHANGED <<gridVars, packingVars, simVars, twinVars, logger, frontVars>>

\* from where on the cycles made after a signal are no longer told apart
MaxCyclesSinceSignal == 2

\* a snapshot that is given the number of the cycle in its phase
snapshotIndex_InPhase(s, cycles) == cycles

\* the cycle number addSnapshot is given after `cycles` cycles of the phase
snapshotIndex(s, cycles) ==
    IF s.phase = "thermalisation" THEN cycles ELSE s.thermalisationCycles + cycles

\* one pass of a loop of perform: performCycle and what the collector is handed
\* after it.  (i + 1) % snapshotEvery with snapshotEvery = 0 is a division by
\* zero: the run is killed
CycleOf(s, wasMoved, wasScaled) ==
    LET done == performCycle(s, wasMoved, wasScaled)
        cycles == s.i + 1
    IN  IF s.snapshotEvery = 0 THEN [s EXCEPT !.phase = "aborted"]
        ELSE [done EXCEPT
                !.i = cycles,
                !.cyclesSinceSignal =
                    IF s.signal = "none" THEN 0 ELSE IF @ = 0 THEN 1 ELSE MaxCyclesSinceSignal,
                !.collector.snapshots =
                    IF cycles % s.snapshotEvery = 0
                    THEN Append(@, snapshotIndex(s, cycles)) ELSE @,
                !.collector.averagingValues =
                    IF s.phase = "averaging" /\ cycles % s.averagingEvery = 0
                    THEN @ + 1 ELSE @]

\* the cycles of the run that are over
cyclesDone(s) ==
    IF s.phase = "thermalisation" THEN s.i ELSE s.thermalisationCycles + s.i

\* one pass of the first or of the second loop of perform
Cycle ==
    /\ \/ sim.phase = "thermalisation" /\ sim.i < sim.thermalisationCycles
       \/ sim.phase = "averaging" /\ sim.i < sim.averagingCycles
    /\ LET wasMoved == cyclesDone(sim) % MovesPerEvaluation < sim.answers.accepted
           wasScaled == IF sim.answers.coupled THEN wasMoved ELSE ~wasMoved
       IN  sim' = CycleOf(sim, wasMoved, wasScaled)
    /\ UNCHANGED <<gridVars, packingVars, simVars, twinVars, logger, frontVars>>

\* a trial that reads the empty bucket of a region out of bounds kills the run
CycleFault ==
    /\ sim.phase \in {"thermalisation", "averaging"}
    /\ sim.numDomains > 1
    /\ sim' = [sim EXCEPT !.phase = "aborted"]
    /\ UNCHANGED <<gridVars, packingVars, simVars, twinVars, logger, frontVars>>

\* the end of the first loop of perform
StartAveraging ==
    /\ sim.phase = "thermalisation"
    /\ sim.i = sim.thermalisationCycles
    /\ sim' = [sim EXCEPT !.phase = "averaging", !.shouldAdjustStepSize = FALSE, !.i = 0]
    /\ UNCHANGED <<gridVars, packingVars, simVars, twinVars, logger, frontVars>>

\* the end of the second loop: perform returns
Return ==
    /\ sim.phase = "averaging"
    /\ sim.i = sim.averagingCycles
    /\ sim' = [sim EXCEPT !.phase = "returned"]
    /\ UNCHANGED <<gridVars, packingVars, simVars, twinVars, logger, frontVars>>

\* SIGINT or SIGCONT is sent to the process during a run.  No handler is
\* installed: SIGINT ends the process where it is, SIGCONT is ignored
Signal ==
    /\ sim.phase \in {"thermalisation", "averaging"}
    /\ sim.signal = "none"
    /\ \E signal \in {"SIGINT", "SIGCONT"} :
        sim' = [sim EXCEPT !.signal = signal,
                           !.phase = IF signal = "SIGINT" THEN "killed" ELSE @]
    /\ UNCHANGED <<gridVars, packingVars, simVars, twinVars, logger, frontVars>>

\* Frontend::casino after perform has returned: the outputs of the run are stored
StoreOutputs ==
    /\ sim.phase = "returned"
    /\ ~sim.stored
    /\ sim' = [sim EXCEPT !.stored = TRUE]
    /\ UNCHANGED <<gridVars, packingVars, simVars, twinVars, logger, frontVars>>

NextRun ==
    \/ Perform
    \/ Cycle
    \/ CycleFault
    \/ StartAveraging
    \/ Return
    \/ Signal
    \/ StoreOutputs

SpecRun == InitRun /\ [][NextRun]_vars
\* the run is between two cycles or has returned
BetweenCycles == sim.phase \in {"thermalisation", "averaging", "returned"}

(***************************************************************************)
(* C12: in every cycle each of the D regions makes exactly ceil(N / D)     *)
(* particle trial moves, N in total when D = 1: after c cycles the thread  *)
(* of every region has counted c * ceil(N / D) trials.                     *)
(***************************************************************************)
C12_TrialsPerRegion ==
    BetweenCycles =>
        \A tid \in 1 .. sim.numDomains :
            sim.moveCounter.moves[tid]
                = cyclesDone(sim) * ((sim.size + sim.numDomains - 1) \div sim.numDomains)
\* no thread of the run is in its sweep
SweepsOver(run) == \A t \in MoveThreads : run.pc[t] = "idle"

(***************************************************************************)
(* C13: in every cycle exactly one box move is proposed: a cycle ends only *)
(* by the answer to a box move, a box move is proposed only after the      *)
(* sweeps, and the sweeps end only when the trials of all regions are      *)
(* over.  While the box move is proposed and answered no thread is in its  *)
(* sweep, no particle trial is made and only generator 0 is drawn from.  A *)
(* rejected box move leaves the box and the overlap count of before it     *)
(* when the cycle ends.                                                    *)
(***************************************************************************)
C13_BoxMoveOrdering ==
    [][\A r \in Runs :
        LET run == twin[r]
            after == twin'[r]
        IN  /\ after.cycle # run.cycle =>
                   /\ run.phase = "scaled"
                   /\ after.cycle = run.cycle + 1
                   /\ after.phase \in {"idle", "finished"}
            /\ (after.phase = "scaled" /\ run.phase # "scaled") => run.phase = "scaling"
            /\ (after.phase = "scaling" /\ run.phase # "scaling") =>
                   /\ run.phase = "moves"
                   /\ \A t \in MoveThreads :
                          run.pc[t] \in {"idle", "done"} /\ run.movesLeft[t] = 0
            /\ after.phase \in {"scaling", "scaled"} => SweepsOver(after)
            /\ (run.phase \in {"scaling", "scaled"} /\ after # run) =>
                   /\ after.acceptedMoves = run.acceptedMoves
                   /\ after.pk.pos = run.pk.pos
                   /\ after.rng[0] = run.rng[0] + 1
                   /\ \A t \in MoveThreads \ {0} : after.rng[t] = run.rng[t]
            /\ (run.phase = "scaled" /\ after # run
                    /\ after.acceptedScalings = run.acceptedScalings) =>
                   /\ after.pk.length = run.pk.lastLength
                   /\ after.pk.overlapCount = run.pk.lastOverlapCount]_vars

\* a box move that changes the box is proposed after the sweeps of two regions
C13_Witness ==
    /\ twin[1].numDomains = 2
    /\ twin[1].phase = "scaled"
    /\ twin[1].acceptedMoves > 0
    /\ twin[1].pk.length # twin[1].pk.lastLength
\* the three steps of the Simulation
Steps(s) == <<s.translationStep, s.rotationStep, s.scalingStep>>
\* the step from sim to sim' is one pass of a loop of perform
IsCycle ==
    /\ sim.phase \in {"thermalisation", "averaging"}
    /\ sim'.phase = sim.phase
    /\ sim'.i = sim.i + 1

(***************************************************************************)
(* C14: with adaptive control on, a cycle changes a step only by an        *)
(* evaluation.  The particle steps are evaluated when the particle trials  *)
(* since the last evaluation, those of this cycle included, are at least   *)
(* 100 * N, and the box step when the box trials since its last evaluation *)
(* are at least 100.  A particle evaluation multiplies the translation and *)
(* the rotation step by 1.1 when more than 0.2 of the trials were accepted *)
(* and 1.1 times the translation step is at most the smallest edge of the  *)
(* box, divides both by 1.1 when less than 0.1 were accepted, and leaves   *)
(* both as they are otherwise; a box evaluation does the same to the box   *)
(* step without the condition on the edge.  An evaluation sets the counts  *)
(* since evaluation of its counter to zero; without one they grow by the   *)
(* trials of the cycle.  Nothing but a cycle changes a step.               *)
(***************************************************************************)
C14_AdaptiveStepRule ==
    [][/\ (sim.phase \in {"constructed", "thermalisation", "averaging"} /\ ~IsCycle)
              => Steps(sim') = Steps(sim)
       /\ (IsCycle /\ sim.shouldAdjustStepSize) =>
            LET attempts(counter, after) ==
                    total(counter.movesSinceEvaluation)
                        + total(after.moves) - total(counter.moves)
                accepted(counter, after) ==
                    total(counter.acceptedMovesSinceEvaluation)
                        + total(after.acceptedMoves) - total(counter.acceptedMoves)
                moves == attempts(sim.moveCounter, sim'.moveCounter)
                movesAccepted == accepted(sim.moveCounter, sim'.moveCounter)
                scalings == attempts(sim.scalingCounter, sim'.scalingCounter)
                scalingsAccepted == accepted(sim.scalingCounter, sim'.scalingCounter)
            IN  /\ IF moves >= 100 * sim.size
                   THEN /\ total(sim'.moveCounter.movesSinceEvaluation) = 0
                        /\ total(sim'.moveCounter.acceptedMovesSinceEvaluation) = 0
                        /\ <<sim'.translationStep, sim'.rotationStep>> =
                             IF 5 * movesAccepted > moves
                                    /\ Times1_1(sim.translationStep) <= minDimension(sim')
                             THEN <<Times1_1(sim.translationStep), Times1_1(sim.rotationStep)>>
                             ELSE IF 10 * movesAccepted < moves
                             THEN <<Over1_1(sim.translationStep), Over1_1(sim.rotationStep)>>
                             ELSE <<sim.translationStep, sim.rotationStep>>
                   ELSE /\ total(sim'.moveCounter.movesSinceEvaluation) = moves
                        /\ total(sim'.moveCounter.acceptedMovesSinceEvaluation) = movesAccepted
                        /\ sim'.translationStep = sim.translationStep
                        /\ sim'.rotationStep = sim.rotationStep
                /\ IF scalings >= 100
                   THEN /\ total(sim'.scalingCounter.movesSinceEvaluation) = 0
                        /\ total(sim'.scalingCounter.acceptedMovesSinceEvaluation) = 0
                        /\ sim'.scalingStep =
                             IF 5 * scalingsAccepted > scalings THEN Times1_1(sim.scalingStep)
                             ELSE IF 10 * scalingsAccepted < scalings
                             THEN Over1_1(sim.scalingStep)
                             ELSE sim.scalingStep
                   ELSE /\ total(sim'.scalingCounter.movesSinceEvaluation) = scalings
                        /\ total(sim'.scalingCounter.acceptedMovesSinceEvaluation)
                               = scalingsAccepted
                        /\ sim'.scalingStep = sim.scalingStep]_vars

\* an evaluation has raised the particle steps and lowered the box step, and
\* the run has gone on
C14_Witness ==
    /\ sim.phase = "thermalisation"
    /\ sim.translationStep = Times1_1(StepUnit)
    /\ sim.rotationStep = Times1_1(2 * StepUnit)
    /\ sim.scalingStep = Over1_1(StepUnit)
    /\ total(sim.moveCounter.movesSinceEvaluation) > 0
(***************************************************************************)
(* C15: from the first cycle of the averaging phase until the run returns  *)
(* the three steps keep the values they had at the end of thermalisation:  *)
(* a step of the run that changes one of them is a cycle of the            *)
(* thermalisation phase.                                                   *)
(***************************************************************************)
C15_FrozenWhileAveraging ==
    [][(sim.phase \in {"constructed", "thermalisation", "averaging", "returned"}
            /\ Steps(sim') # Steps(sim))
           => (sim.phase = "thermalisation" /\ sim'.phase = "thermalisation")]_vars

\* an averaging cycle ends with enough trials counted for an evaluation and a
\* rate above the band, and a translation step that could grow
C15_Witness ==
    /\ sim.phase = "averaging"
    /\ sim.i > 0
    /\ total(sim.moveCounter.movesSinceEvaluation) >= 100 * sim.size
    /\ 5 * total(sim.moveCounter.acceptedMovesSinceEvaluation)
           > total(sim.moveCounter.movesSinceEvaluation)
    /\ Times1_1(sim.translationStep) <= minDimension(sim)
    /\ total(sim.scalingCounter.movesSinceEvaluation) >= 100
(***************************************************************************)
(* C16: after an interrupt the cycle in progress completes and no further  *)
(* cycle starts, the driver returns normally, and the frontend stores the  *)
(* outputs of the run: a signalled run is not ended where it is, and makes *)
(* at most one cycle after the signal.                                     *)
(***************************************************************************)
C16_InterruptCompletesCycle ==
    (sim.phase # "refused" /\ sim.signal # "none") =>
        /\ sim.phase \in {"thermalisation", "averaging", "returned"}
        /\ sim.cyclesSinceSignal <= 1
(***************************************************************************)
(* C17: a box move to a box the neighbour grid cannot be laid out for is   *)
(* an ordinary rejection: the cycle ends as every cycle does, the move is  *)
(* answered as rejected, which is what the scaling counter is handed, and  *)
(* the box and the overlap count are those of before the trial.            *)
(***************************************************************************)
C17_GridRefusalIsRejection ==
    [][(driver.phase = "scaled" /\ driver.refused /\ driver' # driver) =>
           /\ driver'.phase \in {"idle", "finished"}
           /\ ~driver'.wasScaled
           /\ simPacking'.length = simPacking.lastLength
           /\ simPacking'.overlapCount = simPacking.lastOverlapCount]_vars
(***************************************************************************)
(* C18: creating a Simulation fails, so that there is no driver and no     *)
(* cycle is made, when the packing is empty, when one of the translation,  *)
(* rotation and scaling steps is not positive, when the product of the     *)
(* domain divisions is 0, or when the number of domains is above the       *)
(* number of move threads of the packing.                                  *)
(***************************************************************************)
C18_ConstructionErrors ==
    LET a == sim.arguments
        domains == a.domainDivisions[1] * a.domainDivisions[2] * a.domainDivisions[3]
    IN  (\/ a.size = 0
         \/ \E k \in 1 .. 3 : a.steps[k] <= 0
         \/ domains = 0
         \/ domains > a.moveThreads)
            => sim.phase = "refused"
(***************************************************************************)
(* C19: in each phase addSnapshot is called exactly after every            *)
(* snapshotEvery-th cycle of the phase, with the number of the cycle in    *)
(* the run, 1 .. T in thermalisation and T + 1 .. T + A in averaging, so   *)
(* with strictly increasing numbers; addAveragingValues is called exactly  *)
(* after every averagingEvery-th averaging cycle and never during          *)
(* thermalisation, floor(A / averagingEvery) times in a run.               *)
(***************************************************************************)
C19_Cadence ==
    BetweenCycles =>
        LET thermalisation == IF sim.phase = "thermalisation" THEN sim.i
                              ELSE sim.thermalisationCycles
            averaging == IF sim.phase = "thermalisation" THEN 0 ELSE sim.i
            every == sim.snapshotEvery
            due == IF every = 0 THEN {}
                   ELSE {c \in 1 .. thermalisation : c % every = 0}
                        \cup {sim.thermalisationCycles + c : c \in
                                 {c \in 1 .. averaging : c % every = 0}}
        IN  /\ sim.collector.snapshots = SortedSeqOf(due)
            /\ sim.collector.averagingValues = averaging \div sim.averagingEvery
            /\ sim.phase = "returned" =>
                   sim.collector.averagingValues
                       = sim.averagingCycles \div sim.averagingEvery

\* a run has returned with snapshots of both phases and averaging values
C19_Witness ==
    /\ sim.phase = "returned"
    /\ Len(sim.collector.snapshots) >= 2
    /\ sim.collector.snapshots[1] <= sim.thermalisationCycles
    /\ sim.collector.snapshots[Len(sim.collector.snapshots)] > sim.thermalisationCycles
    /\ sim.collector.averagingValues >= 1
    /\ sim.snapshotEvery > 1

(***************************************************************************)
(* The logger: utils/Logger.h, constructed over one output stream.  The    *)
(* stream is the sequence of characters written to it.                     *)
(***************************************************************************)

\* enum LogType, in ascending verbosity
ERROR == 0
WARN == 1
INFO == 2
VERBOSE == 3
DEBUG == 4
LogTypes == {ERROR, WARN, INFO, VERBOSE, DEBUG}

\* the number of calls made on one logger
MaxCalls == 5

Newline == "\n"

\* the strings streamed as values: none of them holds a newline
Values == {<<>>, <<"4">>}
AdditionalTexts == {<<>>, <<"a">>}

\* the timestamp of the logger under test
currentDateTime == <<"d", "a", "t", "e">>

logTypeText(currentLogType) ==
    CASE currentLogType = INFO -> <<" ", " ", " ", "I", "N", "F", "O">>
      [] currentLogType = WARN -> <<" ", " ", " ", "W", "A", "R", "N">>
      [] currentLogType = ERROR -> <<" ", " ", "E", "R", "R", "O", "R">>
      [] currentLogType = VERBOSE -> <<"V", "E", "R", "B", "O", "S", "E">>
      [] currentLogType = DEBUG -> <<" ", " ", "D", "E", "B", "U", "G">>
      [] OTHER -> <<>>

\* Logger(out)
LoggerCtor ==
    [exists |-> TRUE, out |-> <<>>, afterNewline |-> TRUE, currentLogType |-> INFO,
     maxLogType |-> INFO, additionalText |-> <<>>,
     call |-> [name |-> "Logger", arg |-> <<>>], calls |-> 0]

\* a change of log type that leaves an unfinished line open
changeLogType_KeepsLine(l, newLogType) ==
    [l EXCEPT !.currentLogType = newLogType]

changeLogType(l, newLogType) ==
    IF l.currentLogType = newLogType THEN l
    ELSE IF ~l.afterNewline
         THEN [l EXCEPT !.currentLogType = newLogType,
                        !.out = Append(@, Newline),
                        !.afterNewline = TRUE]
         ELSE [l EXCEPT !.currentLogType = newLogType]

\* operator<<(T &&t)
streamValue(l, t) ==
    IF l.currentLogType > l.maxLogType THEN l
    ELSE LET head == IF l.afterNewline
                     THEN <<"[">> \o logTypeText(l.currentLogType) \o <<"]", " ", "[">>
                          \o currentDateTime \o <<"]", " ">>
                          \o (IF l.additionalText # <<>>
                              THEN <<"[">> \o l.additionalText \o <<"]", " ">>
                              ELSE <<>>)
                     ELSE <<>>
         IN  [l EXCEPT !.out = @ \o head \o t, !.afterNewline = FALSE]

\* a manipulator that is applied whatever the verbosity level
streamManipulator_Unfiltered(l, manipulator) ==
    IF manipulator = "endl"
    THEN [l EXCEPT !.afterNewline = TRUE, !.out = Append(@, Newline)]
    ELSE l

\* operator<<(StreamManipulator manipulator), for std::endl and std::flush
streamManipulator(l, manipulator) ==
    IF l.currentLogType > l.maxLogType THEN l
    ELSE IF manipulator = "endl"
         THEN [l EXCEPT !.afterNewline = TRUE, !.out = Append(@, Newline)]
         ELSE l

setAdditionalText(l, additionalText_) == [l EXCEPT !.additionalText = additionalText_]

setVerbosityLevel(l, maxLogType_) == [l EXCEPT !.maxLogType = maxLogType_]

Called(l, name, arg) ==
    [l EXCEPT !.call = [name |-> name, arg |-> arg], !.calls = @ + 1]

InitLogger ==
    /\ GridAbsent /\ PackingAbsent /\ DriverAbsent
    /\ TwinAbsent /\ SimulationAbsent /\ FactoryAbsent /\ NodeAbsent
    /\ logger = LoggerCtor

\* info(), warn(), error(), verbose(), debug()
SelectLogType ==
    /\ logger.exists /\ logger.calls < MaxCalls
    /\ \E newLogType \in LogTypes :
        logger' = Called(changeLogType(logger, newLogType), "select", newLogType)
    /\ UNCHANGED <<gridVars, packingVars, simVars, twinVars, sim, frontVars>>

StreamValue ==
    /\ logger.exists /\ logger.calls < MaxCalls
    /\ \E t \in Values : logger' = Called(streamValue(logger, t), "value", t)
    /\ UNCHANGED <<gridVars, packingVars, simVars, twinVars, sim, frontVars>>

StreamEndl ==
    /\ logger.exists /\ logger.calls < MaxCalls
    /\ logger' = Called(streamManipulator(logger, "endl"), "endl", <<>>)
    /\ UNCHANGED <<gridVars, packingVars, simVars, twinVars, sim, frontVars>>

StreamFlush ==
    /\ logger.exists /\ logger.calls < MaxCalls
    /\ logger' = Called(streamManipulator(logger, "flush"), "flush", <<>>)
    /\ UNCHANGED <<gridVars, packingVars, simVars, twinVars, sim, frontVars>>

SetAdditionalText ==
    /\ logger.exists /\ logger.calls < MaxCalls
    /\ \E additionalText_ \in AdditionalTexts :
        logger' = Called(setAdditionalText(logger, additionalText_),
                         "setAdditionalText", additionalText_)
    /\ UNCHANGED <<gridVars, packingVars, simVars, twinVars, sim, frontVars>>

SetVerbosityLevel ==
    /\ logger.exists /\ logger.calls < MaxCalls
    /\ \E maxLogType_ \in LogTypes :
        logger' = Called(setVerbosityLevel(logger, maxLogType_),
                         "setVerbosityLevel", maxLogType_)
    /\ UNCHANGED <<gridVars, packingVars, simVars, twinVars, sim, frontVars>>

NextLogger ==
    \/ SelectLogType
    \/ StreamValue
    \/ StreamEndl
    \/ StreamFlush
    \/ SetAdditionalText
    \/ SetVerbosityLevel

SpecLogger == InitLogger /\ [][NextLogger]_vars

\* the lines of a stream: the last one is the line not yet ended
RECURSIVE linesOf(_)
linesOf(out) ==
    IF out = <<>> THEN << <<>> >>
    ELSE LET before == linesOf(SubSeq(out, 1, Len(out) - 1))
             c == out[Len(out)]
         IN  IF c = Newline THEN Append(before, <<>>)
             ELSE [before EXCEPT ![Len(before)] = Append(@, c)]

lastLineOf(out) == linesOf(out)[Len(linesOf(out))]

StartsWith(line, head) ==
    /\ Len(line) >= Len(head)
    /\ SubSeq(line, 1, Len(head)) = head

\* '[<type>] [<date>] ', then '[<additional text>] ' for a non-empty text
PrefixOf(type, additionalText) ==
    <<"[">> \o logTypeText(type) \o <<"]", " ", "[", "d", "a", "t", "e", "]", " ">>
    \o (IF additionalText = <<>> THEN <<>>
        ELSE <<"[">> \o additionalText \o <<"]", " ">>)

\* the line is one prefix and then text without the opening of another
HasOnePrefix(line) ==
    \E type \in LogTypes, additionalText \in AdditionalTexts :
        /\ StartsWith(line, PrefixOf(type, additionalText))
        /\ \A k \in Len(PrefixOf(type, additionalText)) + 1 .. Len(line) :
               line[k] # "["

LineStructure ==
    logger.exists =>
        \A k \in 1 .. Len(linesOf(logger.out)) :
            linesOf(logger.out)[k] # <<>> => HasOnePrefix(linesOf(logger.out)[k])

CallStructure ==
    (logger.exists /\ logger' # logger) =>
        /\ StartsWith(logger'.out, logger.out)
        \* a line is started with the type and text in effect
        /\ (lastLineOf(logger.out) = <<>> /\ logger'.out # logger.out
                /\ logger'.call.name # "endl") =>
               /\ Len(linesOf(logger'.out)) = Len(linesOf(logger.out))
               /\ StartsWith(lastLineOf(logger'.out),
                             PrefixOf(logger.currentLogType, logger.additionalText))
               /\ logger'.currentLogType = logger.currentLogType
        \* nothing but a line start writes an opening bracket
        /\ (lastLineOf(logger.out) # <<>>) =>
               \A k \in Len(logger.out) + 1 .. Len(logger'.out) : logger'.out[k] # "["
        /\ logger'.call.name = "select" =>
               logger'.out =
                   IF logger'.call.arg # logger.currentLogType
                      /\ lastLineOf(logger.out) # <<>>
                   THEN Append(logger.out, Newline)
                   ELSE logger.out
        /\ logger'.call.name = "flush" => logger'.out = logger.out

(***************************************************************************)
(* C20: for any sequence of log type selections, streamed values without   *)
(* newlines, std::endl and std::flush, every non-empty line of the output  *)
(* begins with exactly one prefix '[<type>] [<date>] ', followed by        *)
(* '[<additional text>] ' when that text is non-empty, for the type in     *)
(* effect when the line was started; selecting a different type while a    *)
(* line is unfinished first ends that line, selecting the same type does   *)
(* not, and std::flush never ends a line.                                  *)
(***************************************************************************)
C20_LoggerLines == []LineStructure /\ [][CallStructure]_vars

\* a line left unfinished under one type was ended by the selection of
\* another, whose own line follows it
C20_Witness ==
    /\ logger.exists
    /\ Len(linesOf(logger.out)) = 2
    /\ \E type \in LogTypes :
        /\ StartsWith(linesOf(logger.out)[1], PrefixOf(type, <<>>))
        /\ \E other \in LogTypes \ {type} :
            StartsWith(linesOf(logger.out)[2], PrefixOf(other, <<>>))
    /\ logger.call.name = "value"
    /\ logger.calls = 3

EndsWith(out, t) ==
    /\ Len(out) >= Len(t)
    /\ SubSeq(out, Len(out) - Len(t) + 1, Len(out)) = t

Streamed == {"value", "endl", "flush"}

(***************************************************************************)
(* C21: with maximal verbosity level V (INFO by default, in the order      *)
(* ERROR < WARN < INFO < VERBOSE < DEBUG) no value or manipulator streamed *)
(* while the current type is more verbose than V reaches the output or     *)
(* changes the line state of the logger, and every value streamed under a  *)
(* type not more verbose than V is output.                                 *)
(***************************************************************************)
C21_VerbosityFilter ==
    [][(logger.exists /\ logger' # logger /\ logger'.call.name \in Streamed) =>
          IF logger.currentLogType > logger.maxLogType
          THEN /\ logger'.out = logger.out
               /\ logger'.afterNewline = logger.afterNewline
          ELSE logger'.call.name = "value" =>
                  /\ StartsWith(logger'.out, logger.out)
                  /\ EndsWith(logger'.out, logger'.call.arg)
                  /\ Len(logger'.out) >= Len(logger.out) + Len(logger'.call.arg)
                  /\ lastLineOf(logger'.out) # <<>>]_vars

\* a value was streamed under a type above the level, into an open line
C21_Witness ==
    /\ logger.exists
    /\ logger.call = [name |-> "value", arg |-> <<"4">>]
    /\ logger.currentLogType > logger.maxLogType
    /\ lastLineOf(logger.out) # <<>>
    /\ logger.maxLogType # INFO

(***************************************************************************)
(* C23: for every particle trial for which the packing reports the reject  *)
(* sentinel, an infinite energy change, the driver does not call           *)
(* acceptMove and counts the trial as rejected, for every value the        *)
(* uniform random number of [0, 1) can take, 0 included.                   *)
(***************************************************************************)
C23_SentinelNeverCommitted ==
    [][\A t \in MoveThreads :
          (/\ driver.phase = "moves"
           /\ threads[t].pc = "tried"
           /\ threads[t].dE = Infinity
           /\ threads'[t].pc # "tried") =>
              /\ ~threads'[t].wasMoved
              /\ simPacking'.pos = simPacking.pos
              /\ simPacking'.overlapCount = simPacking.overlapCount]_vars

(***************************************************************************)
(* C24: in a sweep with domain division every particle index that the      *)
(* sweep of a region passes to tryMove of the packing is an element of     *)
(* the bucket of that region, for every decomposition that can be built,   *)
(* one with an empty bucket included.                                      *)
(***************************************************************************)
C24_TargetsInRegion ==
    [][(driver.phase = "moves" /\ driver.numDomains > 1) =>
          /\ driver'.phase # "aborted"
          /\ \A t \in MoveThreads :
                (threads[t].pc = "ready" /\ threads'[t].pc = "tried") =>
                    simPacking'.pending[t].idx \in driver.particlesInRegion[t]]_vars

(***************************************************************************)
(* The move counter under the threads of a sweep: Counter::increment as    *)
(* the loads and stores it is made of, one slot of each vector per thread. *)
(* The answers of the trials are free.  driver and threads hold the state  *)
(* of the master thread and of the threads of the regions.                 *)
(***************************************************************************)
\* the cycles that are run on the counters
CounterCycles == 2

\* the sizes of the packing: N / D trials per region and cycle
CounterSizes == {2, 4}

\* the cycles made before the first one looked at, all of them without an
\* accepted move, and how many of them since the last evaluation
EarlierCycles ==
    {[cycles |-> 0, sinceEvaluation |-> 0],
     [cycles |-> MovesPerEvaluation - 1, sinceEvaluation |-> MovesPerEvaluation - 1],
     [cycles |-> MovesPerEvaluation + 50, sinceEvaluation |-> 50]}

\* the vectors of a counter in the order Counter::increment writes them; the
\* last two only for an accepted move
CounterFields ==
    <<"moves", "movesSinceEvaluation", "acceptedMoves", "acceptedMovesSinceEvaluation">>

\* a thread number that is the number of the master thread on every thread
ompThreadId_Master(t) == 0

\* _OMP_THREAD_ID on the thread of region t
ompThreadId(t) == t

IdleCounterThread ==
    [pc |-> "idle", movesLeft |-> 0, wasMoved |-> FALSE, field |-> 0, loaded |-> 0]

CounterTotals(counter) ==
    [f \in {CounterFields[k] : k \in 1 .. 4} |-> total(counter[f])]

\* the counters after the cycles of `earlier`: `perSlot` trials in each slot
EarlierCounter(numThreads, perSlot, earlier) ==
    [setNumThreads(numThreads) EXCEPT
        !.moves = [tid \in 1 .. numThreads |-> perSlot * earlier.cycles],
        !.movesSinceEvaluation =
            [tid \in 1 .. numThreads |-> perSlot * earlier.sinceEvaluation]]

InitCounter ==
    /\ GridAbsent /\ PackingAbsent
    /\ TwinAbsent /\ SimulationAbsent /\ LoggerAbsent /\ FactoryAbsent /\ NodeAbsent
    /\ simPacking = NoPacking
    /\ \E size \in CounterSizes, numDomains \in {1, 2}, earlier \in EarlierCycles :
        /\ driver =
              [phase |-> "idle", cycle |-> 0, size |-> size, numDomains |-> numDomains,
               moveCounter |-> EarlierCounter(numDomains, size \div numDomains, earlier),
               scalingCounter |-> EarlierCounter(1, 1, earlier),
               translationStep |-> StepUnit, rotationStep |-> StepUnit,
               scalingStep |-> StepUnit,
               dimensions |-> <<BoxEdge, BoxEdge, BoxEdge>>,
               before |-> CounterTotals(setNumThreads(1)),
               executed |-> 0, accepted |-> 0, evaluated |-> FALSE]
        /\ threads = [t \in MoveThreads |-> IdleCounterThread]

\* the beginning of performCycle: the sweep, on one thread or on one per region
CounterPerformCycle ==
    /\ driver.phase = "idle"
    /\ driver.cycle < CounterCycles
    /\ driver' = [driver EXCEPT !.phase = "moves",
                                !.before = CounterTotals(driver.moveCounter),
                                !.executed = 0, !.accepted = 0, !.evaluated = FALSE]
    /\ threads' = [t \in MoveThreads |->
           IF t < driver.numDomains
           THEN [IdleCounterThread EXCEPT
                    !.pc = "ready",
                    !.movesLeft = IF driver.numDomains = 1 THEN driver.size
                                  ELSE numMoves(driver.size, driver.numDomains)]
           ELSE IdleCounterThread]
    /\ UNCHANGED <<simPacking, gridVars, packingVars, ctlVars>>

\* bool wasMoved = tryMove(...), and the entry of Counter::increment
CounterTryMove(t) ==
    /\ driver.phase = "moves"
    /\ threads[t].pc = "ready"
    /\ \E wasMoved \in BOOLEAN :
        /\ threads' = [threads EXCEPT ![t].pc = "load", ![t].wasMoved = wasMoved,
                                      ![t].field = 1]
        /\ driver' = [driver EXCEPT !.executed = @ + 1,
                                    !.accepted = @ + (IF wasMoved THEN 1 ELSE 0)]
    /\ UNCHANGED <<simPacking, gridVars, packingVars, ctlVars>>

\* the read of vector[tid] in vector[tid]++
CounterLoad(t) ==
    /\ driver.phase = "moves"
    /\ threads[t].pc = "load"
    /\ threads' = [threads EXCEPT
           ![t].pc = "store",
           ![t].loaded =
               driver.moveCounter[CounterFields[threads[t].field]][ompThreadId(t) + 1]]
    /\ UNCHANGED <<driver, simPacking, gridVars, packingVars, ctlVars>>

\* the write of vector[tid] in vector[tid]++, and what follows it in
\* Counter::increment and in the loop of the sweep
CounterStore(t) ==
    /\ driver.phase = "moves"
    /\ threads[t].pc = "store"
    /\ driver' = [driver EXCEPT
           !.moveCounter[CounterFields[threads[t].field]][ompThreadId(t) + 1] =
               threads[t].loaded + 1]
    /\ LET last == threads[t].field = 4 \/ (threads[t].field = 2 /\ ~threads[t].wasMoved)
           left == threads[t].movesLeft - 1
       IN  threads' = [threads EXCEPT
               ![t].pc = IF ~last THEN "load" ELSE IF left = 0 THEN "done" ELSE "ready",
               ![t].field = IF last THEN 0 ELSE @ + 1,
               ![t].movesLeft = IF last THEN left ELSE @,
               ![t].loaded = 0]
    /\ UNCHANGED <<simPacking, gridVars, packingVars, ctlVars>>

\* the end of the sweep: the loop ends, or all threads reach the barrier
CounterEndMoves ==
    /\ driver.phase = "moves"
    /\ \A t \in MoveThreads : threads[t].pc \in {"idle", "done"}
    /\ driver' = [driver EXCEPT !.phase = "scaling"]
    /\ threads' = [t \in MoveThreads |-> IdleCounterThread]
    /\ UNCHANGED <<simPacking, gridVars, packingVars, ctlVars>>

\* the rest of performCycle on the master thread: the box move is counted and
\* the counters are evaluated
CounterEndCycle ==
    /\ driver.phase = "scaling"
    /\ \E wasScaled \in BOOLEAN :
        LET scaled == [driver EXCEPT !.scalingCounter = incrementTimes(@, 0, 1, wasScaled)]
            done == evaluateCounters(scaled)
        IN  driver' = [done EXCEPT
                !.phase = "idle", !.cycle = @ + 1,
                !.evaluated = done.moveCounter # scaled.moveCounter]
    /\ UNCHANGED <<threads, simPacking, gridVars, packingVars, ctlVars>>

NextCounter ==
    \/ CounterPerformCycle
    \/ \E t \in MoveThreads : CounterTryMove(t)
    \/ \E t \in MoveThreads : CounterLoad(t)
    \/ \E t \in MoveThreads : CounterStore(t)
    \/ CounterEndMoves
    \/ CounterEndCycle

SpecCounter == InitCounter /\ [][NextCounter]_vars

\* the trials of the cycle and the accepted ones among them are in the totals
SweepCounted ==
    driver.phase = "scaling" =>
        LET now == CounterTotals(driver.moveCounter)
        IN  /\ now["moves"] = driver.before["moves"] + driver.executed
            /\ now["movesSinceEvaluation"]
                   = driver.before["movesSinceEvaluation"] + driver.executed
            /\ now["acceptedMoves"] = driver.before["acceptedMoves"] + driver.accepted
            /\ now["acceptedMovesSinceEvaluation"]
                   = driver.before["acceptedMovesSinceEvaluation"] + driver.accepted

CounterOrder ==
    \A counter \in {driver.moveCounter, driver.scalingCounter} :
        LET now == CounterTotals(counter)
        IN  /\ now["acceptedMoves"] <= now["moves"]
            /\ now["movesSinceEvaluation"] <= now["moves"]
            /\ now["acceptedMovesSinceEvaluation"] <= now["movesSinceEvaluation"]
            /\ now["acceptedMovesSinceEvaluation"] <= now["acceptedMoves"]

\* a thread that does not take the step finds its slots as they were
OwnSlotOnly ==
    (driver.phase = "moves" /\ driver'.phase = "moves") =>
        \A t \in 0 .. (driver.numDomains - 1) :
            threads'[t] = threads[t] =>
                \A k \in 1 .. 4 :
                    driver'.moveCounter[CounterFields[k]][t + 1]
                        = driver.moveCounter[CounterFields[k]][t + 1]

(***************************************************************************)
(* C25: each thread increments only its own slot of the counter, and after *)
(* every cycle the aggregated move counter has grown by exactly the number *)
(* of particle trials of the cycle and the aggregated accepted counter by  *)
(* exactly the number of accepted trials, for every interleaving of the    *)
(* threads of the regions; hence accepted <= attempted and the count since *)
(* the evaluation <= the total count at all times.                         *)
(***************************************************************************)
C25_CounterAccuracy ==
    [](SweepCounted /\ CounterOrder) /\ [][OwnSlotOnly]_vars

\* two threads have counted their trials, an accepted one among them, in a cycle
\* after which the counter was evaluated
C25_Witness ==
    /\ driver.phase = "idle"
    /\ driver.numDomains = 2
    /\ driver.cycle > 0
    /\ driver.executed >= 2
    /\ driver.accepted >= 1
    /\ driver.evaluated
    /\ total(driver.moveCounter.movesSinceEvaluation) < total(driver.moveCounter.moves)

(***************************************************************************)
(* C26: after any number of cycles and evaluations the ratio of the        *)
(* rotation step to the translation step is the ratio of the steps given   *)
(* at construction: the two steps have been multiplied and divided by 1.1  *)
(* the same number of times.                                               *)
(***************************************************************************)
C26_CoupledSteps ==
    (sim.phase \in {"constructed", "thermalisation", "averaging", "returned"}) =>
        sim.rotationStep * sim.arguments.steps[1]
            = sim.translationStep * sim.arguments.steps[2]

\* an evaluation found the rate above the band and the translation step, which
\* differs from the rotation step, held by the edge of the box
C26_Witness ==
    /\ sim.phase = "thermalisation"
    /\ sim.i >= MovesPerEvaluation
    /\ sim.answers.accepted = MovesPerEvaluation
    /\ sim.translationStep = BoxEdge
    /\ sim.rotationStep = 2 * StepUnit
    /\ minDimension(sim) = BoxEdge

(***************************************************************************)
(* C28: if the translation step given at construction does not exceed the  *)
(* smallest edge of the box, then after every cycle of a run, with         *)
(* accepted and rejected box moves and evaluations between the particle    *)
(* moves, the translation step is not larger than the smallest edge of the *)
(* box as it is then.                                                      *)
(***************************************************************************)
C28_StepWithinBox ==
    (BetweenCycles /\ sim.arguments.steps[1] <= BoxEdge) =>
        sim.translationStep <= minDimension(sim)

(***************************************************************************)
(* C27: a Packing is constructed from a configuration without overlaps     *)
(* only, and after every sequence of tryTranslation and tryScaling calls,  *)
(* whatever they return, no two particles overlap under the current box    *)
(* size and the periodic boundaries; a tryScaling with a factor of at      *)
(* least 1, accepted without a look at the overlaps, produces none.        *)
(***************************************************************************)
C27_NeverOverlaps ==
    packing.exists => ~areAnyParticlesOverlapping(packing)

(***************************************************************************)
(* The scaling direction of a 'linear' or 'log' scaler, create_volume_     *)
(* scaler of frontend/TriclinicBoxScalerFactory.cpp from the loop over the *)
(* direction string on.  The string is a sequence of characters; a scaling *)
(* direction is the set of the groups of axes that are scaled together.    *)
(***************************************************************************)
\* the length of the longest direction string
MaxDirectionLength == 5

DirectionChars == {"x", "y", "z", "(", ")", "[", "]", "a"}

RECURSIVE StringsOfLength(_)
StringsOfLength(n) ==
    IF n = 0 THEN {<<>>}
    ELSE {Append(str, c) : str \in StringsOfLength(n - 1), c \in DirectionChars}

DirectionStrings == UNION {StringsOfLength(n) : n \in 0 .. MaxDirectionLength}

\* a range test on a character of a group that looks at the character
outOfRange_Either(direction) == direction \notin {"x", "y", "z"}

\* direction < 'x' && direction > 'z'
outOfRange(direction) == FALSE

\* c - 'x' for the three axes, the index into directionUsed
directionIdx(c) == CASE c = "x" -> 0 [] c = "y" -> 1 [] c = "z" -> 2

\* scalingDirectionStr.find(closing, i): the index of the first closing
\* character from i on, or npos (-1)
find(str, closing, i) ==
    IF \E k \in i .. (Len(str) - 1) : str[k + 1] = closing
    THEN CHOOSE k \in i .. (Len(str) - 1) :
             str[k + 1] = closing /\ \A l \in i .. (k - 1) : str[l + 1] # closing
    ELSE -1

\* the state before the loop; an empty rest of the line fails the stream
FactoryBegin(str) ==
    [pc |-> IF str = <<>> THEN "done" ELSE "loop",
     str |-> str, i |-> 0, closingIdx |-> -1, j |-> 0, group |-> "",
     directionUsed |-> [k \in 0 .. 2 |-> FALSE],
     scalingDirection |-> {}, groupedScalingDirection |-> {},
     result |-> IF str = <<>> THEN "ValidationException" ELSE "none"]

InitFactory ==
    /\ GridAbsent /\ PackingAbsent /\ DriverAbsent
    /\ TwinAbsent /\ SimulationAbsent /\ LoggerAbsent /\ NodeAbsent
    /\ \E str \in DirectionStrings : factory = FactoryBegin(str)

Thrown(f, exception) == [f EXCEPT !.pc = "done", !.result = exception]

\* one pass of the loop over the string, for an axis, an opening bracket or
\* another character
FactoryChar ==
    /\ factory.pc = "loop"
    /\ factory.i < Len(factory.str)
    /\ LET c == factory.str[factory.i + 1]
       IN  factory' =
             IF c \in {"x", "y", "z"}
             THEN IF factory.directionUsed[directionIdx(c)]
                  THEN Thrown(factory, "ValidationException")
                  ELSE [factory EXCEPT !.directionUsed[directionIdx(c)] = TRUE,
                                       !.scalingDirection = @ \cup {{c}},
                                       !.i = @ + 1]
             ELSE IF c \in {"(", "["}
             THEN LET closingIdx == find(factory.str, IF c = "(" THEN ")" ELSE "]",
                                         factory.i)
                  IN  IF closingIdx = -1
                      THEN Thrown(factory, "ValidationException")
                      ELSE [factory EXCEPT !.pc = "group", !.group = c,
                                           !.closingIdx = closingIdx,
                                           !.j = factory.i + 1,
                                           !.groupedScalingDirection = {}]
             ELSE Thrown(factory, "ValidationException")
    /\ UNCHANGED <<gridVars, packingVars, simVars, twinVars, sim, logger, node>>

\* one pass of the loop over the characters of a group.  A character that is
\* no axis passes the range test and indexes directionUsed out of bounds:
\* the read faults, or finds some byte set or not set, and the write that
\* follows a byte not set goes wherever it goes
FactoryGroupChar ==
    /\ factory.pc = "group"
    /\ factory.j < factory.closingIdx
    /\ LET direction == factory.str[factory.j + 1]
       IN  IF outOfRange(direction)
           THEN factory' = Thrown(factory, "ValidationException")
           ELSE IF direction \in {"x", "y", "z"}
           THEN factory' =
                  IF factory.directionUsed[directionIdx(direction)]
                  THEN Thrown(factory, "ValidationException")
                  ELSE [factory EXCEPT
                          !.directionUsed[directionIdx(direction)] = TRUE,
                          !.groupedScalingDirection =
                              IF factory.group = "(" THEN @ \cup {direction} ELSE @,
                          !.j = @ + 1]
           ELSE \E read \in {"fault", "set", "not set"} :
                  factory' =
                    IF read = "fault" THEN Thrown(factory, "fault")
                    ELSE IF read = "set" THEN Thrown(factory, "ValidationException")
                    ELSE IF factory.group = "("
                    THEN Thrown(factory, "AssertionException")
                    ELSE [factory EXCEPT !.j = @ + 1]
    /\ UNCHANGED <<gridVars, packingVars, simVars, twinVars, sim, logger, node>>

\* the end of a group: i = closingIdx, the group joins the direction, and the
\* outer loop goes on behind the closing bracket
FactoryGroupEnd ==
    /\ factory.pc = "group"
    /\ factory.j = factory.closingIdx
    /\ factory' = [factory EXCEPT
           !.pc = "loop",
           !.i = factory.closingIdx + 1,
           !.scalingDirection =
               IF factory.group = "(" /\ factory.groupedScalingDirection # {}
               THEN @ \cup {factory.groupedScalingDirection} ELSE @,
           !.group = "", !.closingIdx = -1, !.j = 0, !.groupedScalingDirection = {}]
    /\ UNCHANGED <<gridVars, packingVars, simVars, twinVars, sim, logger, node>>

\* after the loop: all three directions must be used
FactoryReturn ==
    /\ factory.pc = "loop"
    /\ factory.i = Len(factory.str)
    /\ factory' = IF \A k \in 0 .. 2 : factory.directionUsed[k]
                  THEN [factory EXCEPT !.pc = "done", !.result = "scaler"]
                  ELSE Thrown(factory, "ValidationException")
    /\ UNCHANGED <<gridVars, packingVars, simVars, twinVars, sim, logger, node>>

NextFactory ==
    \/ FactoryChar
    \/ FactoryGroupChar
    \/ FactoryGroupEnd
    \/ FactoryReturn

SpecFactory == InitFactory /\ [][NextFactory]_vars

\* x, y and z occur exactly once each in the string from k on, alone or in a
\* group of one kind, and the brackets match
RECURSIVE WellFormed(_, _, _, _)
WellFormed(str, k, used, group) ==
    IF k > Len(str) THEN group = "" /\ used = {"x", "y", "z"}
    ELSE LET c == str[k]
         IN  CASE c \in {"x", "y", "z"} ->
                    c \notin used /\ WellFormed(str, k + 1, used \cup {c}, group)
               [] c \in {"(", "["} -> group = "" /\ WellFormed(str, k + 1, used, c)
               [] c = ")" -> group = "(" /\ WellFormed(str, k + 1, used, "")
               [] c = "]" -> group = "[" /\ WellFormed(str, k + 1, used, "")
               [] OTHER -> FALSE

(***************************************************************************)
(* C29: for a custom direction string of a 'linear' or 'log' scaler the    *)
(* factory returns a scaler if and only if each of the axes x, y and z     *)
(* occurs exactly once, alone, inside one '(...)' group or inside one      *)
(* '[...]' group; every other string, one with a character other than x,  *)
(* y, z anywhere, also inside a group, with a duplicated axis, an          *)
(* unmatched bracket or a missing axis, is rejected with a                 *)
(* ValidationException, and nothing else happens.                          *)
(***************************************************************************)
C29_DirectionParsing ==
    factory.pc = "done" =>
        factory.result = IF WellFormed(factory.str, 1, {}, "")
                         THEN "scaler" ELSE "ValidationException"

(***************************************************************************)
(* pyon::ast::Node::as<ConcreteNode>() of pyon/Node.h.  A node type is the *)
(* value of the enum Node::Type, 0 for INT to 7 for DATACLASS; every       *)
(* concrete node class has its own NODE_TYPE.                              *)
(***************************************************************************)
NodeTypeNames ==
    <<"INT", "FLOAT", "BOOLEAN", "STRING", "NONE", "ARRAY", "DICTIONARY", "DATACLASS">>
NodeTypes == 0 .. (Len(NodeTypeNames) - 1)

\* what a read of nodeType through a null pointer can yield when it does not
\* fault: a value of the enum or another one
ReadThroughNull == NodeTypes \cup {Len(NodeTypeNames)}

\* Node::nameNodeType: the name, or the std::runtime_error of the default case
nameNodeType(type) ==
    IF type \in NodeTypes THEN [thrown |-> FALSE, name |-> NodeTypeNames[type + 1]]
    ELSE [thrown |-> TRUE, name |-> ""]

\* a node of dynamic type nodeType, held by a shared pointer, on which
\* as<ConcreteNode>() is called with ConcreteNode::NODE_TYPE = expected
InitNode ==
    /\ GridAbsent /\ PackingAbsent /\ DriverAbsent
    /\ TwinAbsent /\ SimulationAbsent /\ LoggerAbsent /\ FactoryAbsent
    /\ \E nodeType \in NodeTypes, expected \in NodeTypes :
        node = [pc |-> "as", nodeType |-> nodeType, expected |-> expected,
                castPtr |-> "none", expectedType |-> "", actualType |-> "",
                nullAccessed |-> FALSE, result |-> "none", message |-> <<>>]

\* std::dynamic_pointer_cast<const ConcreteNode>(shared_from_this()) and the
\* return of a pointer that is not null
NodeCast ==
    /\ node.pc = "as"
    /\ node' = IF node.nodeType = node.expected
               THEN [node EXCEPT !.pc = "done", !.castPtr = "this",
                                 !.result = "returned"]
               ELSE [node EXCEPT !.pc = "expected", !.castPtr = "null"]
    /\ UNCHANGED <<gridVars, packingVars, simVars, twinVars, sim, logger, factory>>

\* auto expectedType = Node::nameNodeType(ConcreteNode::NODE_TYPE)
NodeExpectedType ==
    /\ node.pc = "expected"
    /\ node' = [node EXCEPT !.pc = "actual",
                            !.expectedType = nameNodeType(node.expected).name]
    /\ UNCHANGED <<gridVars, packingVars, simVars, twinVars, sim, logger, factory>>

\* auto actualType = Node::nameNodeType(castPtr->getType()), where castPtr is
\* null: the read of nodeType faults or yields whatever is there
NodeActualType ==
    /\ node.pc = "actual"
    /\ \/ node' = [node EXCEPT !.pc = "done", !.nullAccessed = TRUE, !.result = "fault"]
       \/ \E type \in ReadThroughNull :
            node' = IF nameNodeType(type).thrown
                    THEN [node EXCEPT !.pc = "done", !.nullAccessed = TRUE,
                                      !.result = "std::runtime_error"]
                    ELSE [node EXCEPT !.pc = "throw", !.nullAccessed = TRUE,
                                      !.actualType = nameNodeType(type).name]
    /\ UNCHANGED <<gridVars, packingVars, simVars, twinVars, sim, logger, factory>>

\* throw BadNodeCastException("Trying to cast " + actualType + " node to " +
\* expectedType)
NodeThrow ==
    /\ node.pc = "throw"
    /\ node' = [node EXCEPT
           !.pc = "done", !.result = "BadNodeCastException",
           !.message = <<"Trying to cast ", node.actualType, " node to ",
                         node.expectedType>>]
    /\ UNCHANGED <<gridVars, packingVars, simVars, twinVars, sim, logger, factory>>

NextNode ==
    \/ NodeCast
    \/ NodeExpectedType
    \/ NodeActualType
    \/ NodeThrow

SpecNode == InitNode /\ [][NextNode]_vars

(***************************************************************************)
(* C30: Node::as<ConcreteNode>() on a node whose dynamic type is not       *)
(* ConcreteNode always ends by throwing BadNodeCastException with a        *)
(* message that names the actual and the expected node type, and never     *)
(* accesses a null pointer; on a node of the right type it returns a       *)
(* pointer, not null, to the same node.                                    *)
(***************************************************************************)
C30_BadCastReported ==
    /\ node.pc # "none" => ~node.nullAccessed
    /\ node.pc = "done" =>
          IF node.nodeType = node.expected
          THEN node.result = "returned" /\ node.castPtr = "this"
          ELSE /\ node.result = "BadNodeCastException"
               /\ node.message = <<"Trying to cast ", NodeTypeNames[node.nodeType + 1],
                                   " node to ", NodeTypeNames[node.expected + 1]>>
====
